---- MODULE Spec2Model ----
(***************************************************************************)
(* A model of track-tree-audio: the job pipeline of                        *)
(* src/src/demucs_runner.py (process_audio_split and its steps) and the    *)
(* retry engine that decorates every S3Service operation of                *)
(* src/src/aws_services/s3.py.                                             *)
(***************************************************************************)
EXTENDS Integers, Sequences, FiniteSets, TLC

(***************************************************************************)
(* Bounds of the model.                                                    *)
(***************************************************************************)
\* number of names tempfile.mkdtemp can hand out
MaxDirs == 2
\* number of worker slots of the broker's pool
MaxWorkers == 2

Workers == 1 .. MaxWorkers
Dirs == 1 .. MaxDirs

(***************************************************************************)
(* Exceptions: a type and a message; str(e) is the message.                *)
(***************************************************************************)
Exc(t, m) == [type |-> t, msg |-> m]
NoExc == Exc("None", "")
str(e) == e.msg

DownloadError == Exc("ConnectionError", "download failed")
ModelLoadError == Exc("RuntimeError", "unknown model")
SeparationError == Exc("RuntimeError", "separation failed")
UploadError == Exc("ClientError", "upload failed")
TransientUploadError == Exc("ClientError", "SlowDown: reduce your request rate")
ProbeError == Exc("TimeoutExpired", "ffprobe timed out")
BrokerError == Exc("OperationalError", "broker unreachable")
MkdtempError == Exc("OSError", "no space left on device")
RmtreeError == Exc("PermissionError", "cannot remove workspace")
ValidationError == Exc("ValidationError", "job_id: field required")
WebhookHTTPError == Exc("HTTPError", "500 Server Error")
WebhookTimeout == Exc("Timeout", "webhook timed out")
WebhookConnectionError == Exc("ConnectionError", "callback unreachable")

(***************************************************************************)
(* models.py: WebhookPayload.  Pydantic validates the keyword arguments of *)
(* the constructor: a required field that is absent is a ValidationError,  *)
(* a keyword that is not a field of the model is ignored, an optional      *)
(* field that is absent takes its default.                                 *)
(***************************************************************************)
None == "None"
WebhookPayloadRequired == {"job_id", "status"}
WebhookPayloadStatus == {"completed", "failed"}

WebhookPayloadValid(kw) ==
    /\ WebhookPayloadRequired \subseteq DOMAIN kw
    /\ kw.status \in WebhookPayloadStatus

WebhookPayload(kw) ==
    [job_id |-> kw.job_id,
     status |-> kw.status,
     stems  |-> IF "stems" \in DOMAIN kw THEN kw.stems ELSE << >>,
     error  |-> IF "error" \in DOMAIN kw THEN kw.error ELSE None]

(***************************************************************************)
(* demucs_runner.py: the keyword arguments process_audio_split passes to   *)
(* WebhookPayload on its success path and in its except handler.           *)
(***************************************************************************)
CompletedKwargs(vid, infos) ==
    [version_id |-> vid, status |-> "completed", processing_time_ms |-> 0,
     stems |-> infos, error |-> None]

FailedKwargs(vid, error_msg) ==
    [version_id |-> vid, status |-> "failed", processing_time_ms |-> 0,
     stems |-> << >>, error |-> error_msg]

(***************************************************************************)
(* demucs_runner.py: separate_audio's canonical stem names, in the order   *)
(* of the list the loop walks.                                             *)
(***************************************************************************)
\* a list that also names the two-stem model's second file
stem_names_two_stem == << "drums", "bass", "other", "vocals", "accompaniment" >>

\* line 203
stem_names == << "drums", "bass", "other", "vocals" >>
StemSet == { stem_names[i] : i \in 1 .. Len(stem_names) }
\* a file the model may leave in the output directory beside the stems
OutputFiles == StemSet \cup {"accompaniment"}

\* the orders in which the inference call can create its output files;
\* the empty order is the call that creates no output directory (line 206)
ProductionOrders ==
    { order \in UNION { [1 .. n -> OutputFiles] : n \in 0 .. Cardinality(OutputFiles) } :
        \A i, j \in DOMAIN order : i # j => order[i] # order[j] }

FilesOf(order) == { order[i] : i \in DOMAIN order }

RECURSIVE CollectStems(_, _)
\* a variant that takes the files in the order of a sorted directory listing
CollectListed(i, files) ==
    SelectSeq(<< "accompaniment", "bass", "drums", "other", "vocals" >>,
              LAMBDA name : name \in files /\ name \in StemSet)

\* the loop of separate_audio: the canonical names, in order, whose file exists
CollectStems(i, files) ==
    IF i > Len(stem_names) THEN << >>
    ELSE IF stem_names[i] \in files
         THEN << stem_names[i] >> \o CollectStems(i + 1, files)
         ELSE CollectStems(i + 1, files)

\* upload_stems: the object key of a stem
StemKeyFlat(vid, stem_name) == << 0, stem_name, "wav" >>

StemKey(vid, stem_name) == << vid, stem_name, "wav" >>

\* upload_stems: the StemInfo recorded for an uploaded stem
StemInfo(vid, stem_name, duration) ==
    [type |-> stem_name, url |-> StemKey(vid, stem_name), duration |-> duration]

(***************************************************************************)
(* demucs_runner.py: send_webhook.  What one POST can do: be answered 2xx, *)
(* be answered with an error status, be received while the answer times    *)
(* out, or never reach the endpoint.                                       *)
(***************************************************************************)
SendOutcomes == {"ok", "http_error", "timeout", "unreachable"}
SendDelivered(o) == o # "unreachable"
SendError(o) ==
    CASE o = "ok" -> NoExc
      [] o = "http_error" -> WebhookHTTPError
      [] o = "timeout" -> WebhookTimeout
      [] OTHER -> WebhookConnectionError

(***************************************************************************)
(* aws_services/constants.py and aws_services/s3.py: the retry engine.     *)
(* An exception of a storage operation is a type and, for a ClientError,   *)
(* the code in response['Error']['Code'].                                  *)
(***************************************************************************)
S3_DEFAULT_MAX_RETRIES == 3
S3_DEFAULT_MIN_DELAY == 1
S3_DEFAULT_MAX_DELAY == 60
S3_DEFAULT_EXPONENTIAL_BASE == 2
S3_DEFAULT_JITTER == TRUE

S3_RETRYABLE_ERROR_CODES ==
    {"ThrottlingException", "Throttling", "RequestTimeout",
     "RequestTimeoutException", "ServiceUnavailable", "InternalError",
     "InternalServerError", "SlowDown", "TooManyRequests",
     "RequestLimitExceeded", "BandwidthLimitExceeded", "RequestThrottled"}

RETRYABLE_EXCEPTIONS ==
    {"ClientError", "BotoCoreError", "ConnectionError", "TimeoutError"}

S3Exc(t, c) == [type |-> t, code |-> c]
S3Ok == S3Exc("ok", "")
S3None == S3Exc("None", "")

\* what a retry predicate answers: a truth value, or an exception of its own
Answer(v) == [raises |-> FALSE, value |-> v]
AttributeError == [raises |-> TRUE, value |-> FALSE]

\* lines 40-48: reads retry_state.outcome; an object without that attribute
\* raises AttributeError
_should_retry_s3_error(retry_state) ==
    IF "outcome" \notin DOMAIN retry_state
    THEN AttributeError
    ELSE LET exception == retry_state.outcome IN
         IF exception.type \in {"ClientError", "BotoCoreError"}
         THEN Answer(exception.code \in S3_RETRYABLE_ERROR_CODES)
         ELSE Answer(FALSE)

\* tenacity.retry_if_exception_type: isinstance(exception, types)
retry_if_exception_type(types, retry_state) ==
    Answer(retry_state.outcome.type \in types)

\* tenacity.retry_if_exception(_should_retry_s3_error): the predicate is
\* handed the exception itself, not the retry state
retry_if_exception(retry_state) ==
    _should_retry_s3_error(retry_state.outcome)

\* the decorator's retry=... argument (lines 181, 400): `a | b` is
\* tenacity.retry_any, which stops at the first predicate that answers true
RetryPredicate(retry_state) ==
    LET first == retry_if_exception_type(RETRYABLE_EXCEPTIONS, retry_state) IN
    IF first.value THEN first
    ELSE retry_if_exception(retry_state)

\* a variant that counts retries instead of attempts
stop_after_retries(max_attempt_number, attempt_number) ==
    attempt_number > max_attempt_number

\* the decorator's stop=stop_after_attempt(S3_DEFAULT_MAX_RETRIES)
stop_after_attempt(max_attempt_number, attempt_number) ==
    attempt_number >= max_attempt_number

\* a decorator that wraps the last error: reraise=False
reraise_off == FALSE

\* the decorator's reraise=True (line 186): when the attempts run out the
\* engine raises the last attempt's exception, not tenacity.RetryError
reraise == TRUE

RetryError == S3Exc("RetryError", "")

RECURSIVE Pow(_, _)
Pow(b, n) == IF n = 0 THEN 1 ELSE b * Pow(b, n - 1)

Min(a, b) == IF a < b THEN a ELSE b

\* a backoff that doubles without the clamp to max
wait_unclamped(multiplier, max, attempt_number) ==
    multiplier * Pow(2, attempt_number - 1)

\* tenacity.wait_exponential(multiplier, max): multiplier * 2^(attempt-1),
\* clamped to max
wait_exponential(multiplier, max, attempt_number) ==
    Min(max, multiplier * Pow(2, attempt_number - 1))

\* the decorator's wait=... argument: with S3_DEFAULT_JITTER the sleep is
\* drawn from [0, wait_exponential]; the model draws whole seconds
WaitChoices(attempt_number) ==
    LET high == wait_exponential(S3_DEFAULT_MIN_DELAY, S3_DEFAULT_MAX_DELAY,
                                 attempt_number) IN
    IF S3_DEFAULT_JITTER THEN 0 .. high ELSE {high}

\* the operations of S3Service; every one carries the same @retry decorator
S3Ops == {"test_connection", "upload_file", "download_file", "file_exists",
          "delete_file", "list_objects", "generate_presigned_put_url",
          "generate_presigned_get_url", "get_object_metadata",
          "get_object_tags", "set_object_tags", "copy_object", "get_object",
          "upload_fileobj", "delete_objects"}
\* operations that turn a '404' ClientError into FileNotFoundError
NotFoundOps == {"get_object_metadata", "get_object", "get_object_tags"}

\* error codes the storage service answers with in the model
ClientCodes == {"Throttling", "SlowDown", "ServiceUnavailable",
                "AccessDenied", "NoSuchKey", "404"}

\* what one call of the boto3 client can do
ClientOutcomes ==
    {S3Ok} \cup { S3Exc("ClientError", c) : c \in ClientCodes }
           \cup { S3Exc("BotoCoreError", "") }

\* a value returned by an operation
S3Value(v) == [type |-> "ok", code |-> v]

\* bodies that log and re-raise whatever the client raised
BodyOutcomeReraising(op, o) ==
    IF op = "file_exists" /\ o.type = "ok" THEN S3Value("True") ELSE o

\* the body of an operation after the client call: what it returns or raises.
\* test_connection (lines 172-178) catches every exception and returns
\* False; file_exists (262-271) returns True after head_object and False on
\* '404'; the metadata, tags and get_object bodies (410-427) raise
\* FileNotFoundError on '404'; every other body logs and re-raises (202-209)
BodyOutcome(op, o) ==
    IF op = "test_connection"
    THEN IF o.type = "ok" THEN S3Value("True") ELSE S3Value("False")
    ELSE IF o.type = "ClientError" /\ o.code = "404" /\ op \in NotFoundOps
    THEN S3Exc("FileNotFoundError", "")
    ELSE IF o.type = "ClientError" /\ o.code = "404" /\ op = "file_exists"
    THEN S3Value("False")
    ELSE IF o.type = "ok" /\ op = "file_exists"
    THEN S3Value("True")
    ELSE o

\* _get_bucket (lines 130-139) when no bucket is configured
BucketError == S3Exc("ValueError", "")

\* what an operation ends with when no bucket is configured: _get_bucket is
\* called inside the try of test_connection and before the try elsewhere
BucketOutcome(op) ==
    IF op = "test_connection" THEN S3Value("False") ELSE BucketError

\* instance limits the constructor accepts (lines 76-99)
MaxRetriesChoices == {2, 3, 4}

(***************************************************************************)
(* security.py: HMAC signing and the callback allowlist.                   *)
(* A string is a sequence of symbols.  The 64 hex characters of a digest   *)
(* are written as one symbol that names the key and the message.           *)
(***************************************************************************)
\* clock readings, int(time.time()), in whole seconds
MaxClock == 2
Clock == 1 .. MaxClock

\* the calls kept in the history
MaxCalls == 2

\* timestamp=None, the default of the optional argument
NoTimestamp == << None >>

Digits == << "0", "1", "2", "3", "4", "5", "6", "7", "8", "9" >>

\* str(int(time.time()))
RECURSIVE IntToStr(_)
IntToStr(n) ==
    IF n < 10 THEN << Digits[n + 1] >>
    ELSE IntToStr(n \div 10) \o << Digits[(n % 10) + 1] >>

RECURSIVE Join(_)
Join(s) == IF s = << >> THEN "" ELSE Head(s) \o Join(Tail(s))

\* hmac.new(key, message, hashlib.sha256).hexdigest() (lines 56-60): two
\* digests are equal exactly when key and message are
hexdigest(key, message) ==
    << "hmac(" \o key \o "," \o Join(message) \o ")" >>

\* "sha256="
Prefix == << "s", "h", "a", "2", "5", "6", "=" >>

\* a test of the length alone
startswith_length(s, prefix) == Len(prefix) <= Len(s)

\* str.startswith
startswith(s, prefix) ==
    Len(prefix) <= Len(s) /\ SubSeq(s, 1, Len(prefix)) = prefix

\* s[i:]
SliceFrom(s, i) == SubSeq(s, i + 1, Len(s))

\* a character outside ASCII
NonAscii == "U+00E9"
isascii(s) == \A i \in DOMAIN s : s[i] # NonAscii

\* what a call ends with: a returned value or a raised exception
Value(v) == [raised |-> None, value |-> v]
Raise(type) == [raised |-> type, value |-> FALSE]

\* hmac.compare_digest on two str: TypeError unless both are ASCII
compare_digest(a, b) ==
    IF isascii(a) /\ isascii(b) THEN Value(a = b) ELSE Raise("TypeError")

\* lines 37-62; token is settings.demucssvc_token and time what time.time()
\* reads when the call is made
create_hmac_signature(token, payload, timestamp, time) ==
    LET ts == IF timestamp = NoTimestamp THEN IntToStr(time) ELSE timestamp
        message == payload \o << "|" >> \o ts
    IN  hexdigest(token, message)

\* a verifier that also wants the timestamp to be the current second
verify_fresh_signature(token, payload, signature, timestamp, time) ==
    IF ~startswith(signature, Prefix) \/ timestamp # IntToStr(time)
    THEN Value(FALSE)
    ELSE compare_digest(SliceFrom(signature, 7),
                        create_hmac_signature(token, payload, timestamp, time))

\* lines 12-34
verify_hmac_signature(token, payload, signature, timestamp, time) ==
    IF ~startswith(signature, Prefix)
    THEN Value(FALSE)
    ELSE LET received_signature == SliceFrom(signature, 7)
             expected_signature ==
                 create_hmac_signature(token, payload, timestamp, time)
         IN  compare_digest(received_signature, expected_signature)

HeaderNames == {"X-Signature", "X-Timestamp", "Content-Type"}

\* headers that leave the timestamp to create_hmac_signature
get_webhook_headers_resigned(token, payload, timestamp, time, later) ==
    LET ts == IF timestamp = NoTimestamp THEN IntToStr(time) ELSE timestamp
        signature == create_hmac_signature(token, payload, timestamp, later)
    IN  [h \in HeaderNames |->
            IF h = "X-Signature" THEN Prefix \o signature
            ELSE IF h = "X-Timestamp" THEN ts
            ELSE << "application/json" >>]

\* lines 93-113; time is the clock reading of line 105 and later the
\* reading when create_hmac_signature is called
get_webhook_headers(token, payload, timestamp, time, later) ==
    LET ts == IF timestamp = NoTimestamp THEN IntToStr(time) ELSE timestamp
        signature == create_hmac_signature(token, payload, ts, later)
    IN  [h \in HeaderNames |->
            IF h = "X-Signature" THEN Prefix \o signature
            ELSE IF h = "X-Timestamp" THEN ts
            ELSE << "application/json" >>]

\* urllib.parse.urlparse on a URL written as a sequence of pieces: the
\* scheme is the piece before ":" in lower case, the netloc the pieces
\* between "//" and the first piece that opens the path, the query or the
\* fragment, the path the pieces up to the query or the fragment
lower(piece) == IF piece = "HTTPS" THEN "https" ELSE piece

SchemePieces == {"https", "http", "HTTPS"}
PathPieces == {"/webhooks", "/demucs", "/x", "-other", "not-a-url"}
TailPieces == {"?q=1", "#frag"}

RECURSIVE TakeWhileNotIn(_, _)
TakeWhileNotIn(s, stop) ==
    IF s = << >> \/ Head(s) \in stop THEN << >>
    ELSE << Head(s) >> \o TakeWhileNotIn(Tail(s), stop)

ParseResult(scheme, netloc, path) ==
    [scheme |-> scheme, netloc |-> netloc, path |-> path]

urlparse(url) ==
    LET has_scheme == Len(url) >= 2 /\ url[1] \in SchemePieces /\ url[2] = ":"
        scheme == IF has_scheme THEN << lower(url[1]) >> ELSE << >>
        rest == IF has_scheme THEN SliceFrom(url, 2) ELSE url
        has_netloc == rest # << >> /\ Head(rest) = "//"
        netloc == IF has_netloc
                  THEN TakeWhileNotIn(Tail(rest), PathPieces \cup TailPieces)
                  ELSE << >>
        after == IF has_netloc THEN SliceFrom(rest, 1 + Len(netloc)) ELSE rest
        path == TakeWhileNotIn(after, TailPieces)
    IN  IF has_netloc /\ "[::1" \in { netloc[i] : i \in DOMAIN netloc }
        THEN Raise("ValueError")
        ELSE Value(ParseResult(scheme, netloc, path))

\* an allowlist test on whole path segments: what follows the entry's path
\* must start a new segment
path_segments(path, allowed_path) ==
    /\ Len(allowed_path) <= Len(path)
    /\ SubSeq(path, 1, Len(allowed_path)) = allowed_path
    /\ Len(path) > Len(allowed_path)
           => path[Len(allowed_path) + 1] \in {"/webhooks", "/demucs", "/x"}

\* an allowlist test that wants the whole path to be the entry's path
path_equals(path, allowed_path) == path = allowed_path

\* line 85: parsed_url.path.startswith(allowed_parsed.path)
path_allowed(path, allowed_path) == startswith(path, allowed_path)

\* the loop of lines 81-86 from entry i on
RECURSIVE AllowedFrom(_, _, _)
AllowedFrom(parsed_url, allowlist, i) ==
    IF i > Len(allowlist) THEN Value(FALSE)
    ELSE LET allowed_parsed == urlparse(allowlist[i]) IN
         IF allowed_parsed.raised # None THEN allowed_parsed
         ELSE IF /\ parsed_url.scheme = allowed_parsed.value.scheme
                 /\ parsed_url.netloc = allowed_parsed.value.netloc
                 /\ path_allowed(parsed_url.path, allowed_parsed.value.path)
         THEN Value(TRUE)
         ELSE AllowedFrom(parsed_url, allowlist, i + 1)

\* lines 65-90; allowlist is settings.api_webhook_url_allowlist; every
\* exception is caught and answered False
is_webhook_url_allowed(allowlist, webhook_url) ==
    LET parsed_url == urlparse(webhook_url) IN
    IF parsed_url.raised # None THEN FALSE
    ELSE IF parsed_url.value.scheme = << >> \/ parsed_url.value.netloc = << >>
    THEN FALSE
    ELSE AllowedFrom(parsed_url.value, allowlist, 1).value

\* env.py line 22: the default allowlist
default_allowlist ==
    << << "https", ":", "//", "api.track-tree.com", "/webhooks", "/demucs" >> >>

\* the allowlists an installation can be configured with: the default, and
\* one whose only entry names a host without a path
Allowlists ==
    { default_allowlist,
      << << "https", ":", "//", "api.track-tree.com" >> >> }

\* the secrets an installation runs with; main.py line 96 names the second
Tokens == {"secret", "mock-token-for-development"}

\* payloads and timestamps handed to the signing functions
Payloads == { << "a" >>, << "a", "|", "1" >> }
Timestamps == { << "1" >>, << "2" >>, << "1", "|", "2" >> }

\* another 7-character prefix
WrongPrefix == << "s", "h", "a", "5", "1", "2", "=" >>

\* the X-Signature values a caller can present: digests made with the
\* token, with or without the prefix, digests made with another key, and a
\* value with a character outside ASCII
Signatures(token, payloads) ==
    LET digests == { create_hmac_signature(token, p, t, 1) :
                        p \in payloads, t \in Timestamps }
    IN  { pre \o d : pre \in {Prefix, WrongPrefix, << >>}, d \in digests }
          \cup { Prefix \o create_hmac_signature("guess", p, << "1" >>, 1) :
                    p \in payloads }
          \cup { Prefix \o << NonAscii >> }

\* callback URLs, piece by piece
Urls ==
    { << "https", ":", "//", "api.track-tree.com", "/webhooks", "/demucs" >>,
      << "https", ":", "//", "api.track-tree.com", "/webhooks", "/demucs",
         "/x" >>,
      << "https", ":", "//", "api.track-tree.com", "/webhooks", "/demucs",
         "-other" >>,
      << "https", ":", "//", "api.track-tree.com", "/webhooks", "/demucs",
         "?q=1" >>,
      << "https", ":", "//", "api.track-tree.com", "/webhooks", "/demucs",
         "-other", "#frag" >>,
      << "https", ":", "//", "api.track-tree.com", "/x" >>,
      << "https", ":", "//", "api.track-tree.com", "/x", "?q=1", "#frag" >>,
      << "https", ":", "//", "api.track-tree.com" >>,
      << "https", ":", "//", "api.track-tree.com", "/webhooks" >>,
      << "https", ":", "//", "api.track-tree.com", ":443", "/webhooks",
         "/demucs" >>,
      << "https", ":", "//", "user@", "api.track-tree.com", "/webhooks",
         "/demucs" >>,
      << "HTTPS", ":", "//", "api.track-tree.com", "/webhooks", "/demucs" >>,
      << "http", ":", "//", "api.track-tree.com", "/webhooks", "/demucs" >>,
      << "https", ":", "//", "malicious.com", "/webhooks", "/demucs" >>,
      << "https", ":", "//", "[::1", "/webhooks", "/demucs" >>,
      << "https", ":", "/webhooks", "/demucs" >>,
      << "not-a-url" >> }

\* models.py lines 8-14: the fields of a SplitRequest the front door reads
SplitRequest(version, callback_url) ==
    [version_id |-> version, callback_url |-> callback_url]

\* request.model_dump_json(): the fields, serialised in declaration order
model_dump_json(request) ==
    << "{", request.version_id >> \o request.callback_url \o << "}" >>

\* the requests POSTed to /split
Requests ==
    { SplitRequest("v1", u) :
        u \in { << "https", ":", "//", "api.track-tree.com", "/webhooks",
                   "/demucs" >>,
                << "https", ":", "//", "malicious.com", "/webhooks",
                   "/demucs" >> } }

\* what starting the job does: the call returns or raises
StartOutcomes == {"started", "error"}

(***************************************************************************)
(* webhook.py: send_webhook and send_webhook_with_retry.                   *)
(***************************************************************************)
\* max_retries arguments of the model; the default is 3 (line 58)
MaxRetriesArgs == {-1, 0, 1, 2, 3}

\* the payloads handed to send_webhook_with_retry
CompletedPayload ==
    WebhookPayload([job_id |-> "j1", status |-> "completed",
                    stems |-> << "drums" >>, error |-> None])
FailedPayload ==
    WebhookPayload([job_id |-> "j1", status |-> "failed", stems |-> << >>,
                    error |-> "download failed"])
HookPayloads == {CompletedPayload, FailedPayload}

\* payload.model_dump_json() (line 25): the fields in declaration order
payload_json(payload) ==
    << "{", payload.job_id, payload.status >> \o payload.stems
        \o << payload.error, "}" >>

\* headers built on the first attempt and sent again on the later ones
HeadersOfFirstAttempt(headers, sent) ==
    IF sent = << >> THEN headers ELSE sent[1].headers

\* lines 25-26: every send_webhook call builds its headers itself
HeadersSent(headers, sent) == headers

\* lines 32-37: requests.post(webhook_url, data=payload_json, headers=...)
HookPost(a, body, headers, time) ==
    [attempt |-> a, body |-> body, headers |-> headers, at |-> time]

\* what one send_webhook call meets: an exception before the POST
\* (serialising or signing), a timeout, a connection error, an error status
\* answered by the endpoint, or a 2xx answer
HookOutcomes == {"unexpected", "timeout", "connection_error", "http_error",
                 "ok"}

\* a send_webhook that lets an unexpected exception out
send_webhook_reraising(o) ==
    IF o = "ok" THEN Value(TRUE)
    ELSE IF o = "unexpected" THEN Raise("Exception")
    ELSE Value(FALSE)

\* lines 13-52: True after raise_for_status passed, False from each of the
\* three except clauses
send_webhook(o) == IF o = "ok" THEN Value(TRUE) ELSE Value(FALSE)

\* a backoff that starts at one second
backoff_delay_from_one(a) == Pow(2, a - 1)

\* line 77: delay = 2 ** attempt
backoff_delay(a) == Pow(2, a)

HookSleep(a) == [kind |-> "sleep", attempt |-> a, delay |-> backoff_delay(a),
                 outcome |-> ""]
HookSend(a, o) == [kind |-> "send", attempt |-> a, delay |-> 0, outcome |-> o]

(***************************************************************************)
(* mock_demucs_runner.py: mock_process_audio_split.                        *)
(***************************************************************************)
\* stem_types arguments of the model: lists of up to two names, a name
\* twice and a name that is no stem of the real model included
MockStemTypes == {"drums", "vocals", "piano"}
MaxStemTypes == 2
StemTypeLists ==
    UNION { [1 .. n -> MockStemTypes] : n \in 0 .. MaxStemTypes }

\* lines 44-53: one StemInfo per requested type, in the order requested
MockStems(types) ==
    [i \in DOMAIN types |->
        [type |-> types[i],
         url |-> << "s3://mock-bucket/stems/", "v1", "/", types[i], ".wav" >>,
         duration |-> 180]]

\* lines 58-63 and 91-97: the keyword arguments of the two payloads
MockCompletedKwargs(types) ==
    [job_id |-> "uuid", status |-> "completed", stems |-> MockStems(types),
     processing_time |-> 0]
MockFailedKwargs(e) ==
    [job_id |-> "uuid", status |-> "failed", stems |-> << >>,
     error |-> "Webhook delivery failed: " \o e, processing_time |-> 0]

\* what `await client.post(...)` ends with: a response with a status, or
\* an exception of httpx
MockPostOutcomes == {"200", "500", "ReadTimeout", "ConnectError"}

\* a sender that treats every status but 200 as an error
PostRaisedOrRefused(o) == o # "200"

\* lines 71-86: the call raises only when httpx raises; a response with
\* another status than 200 is printed (lines 82-84) and nothing is raised
PostRaised(o) == o \in {"ReadTimeout", "ConnectError"}

MockPost(payload, o) == [payload |-> payload, outcome |-> o]

\* nothing returned yet
NoMockResult ==
    [job_id |-> "", status |-> "none", stems |-> << >>, processing_time |-> 0]

\* lines 112-117
MockResult(types) ==
    [job_id |-> "uuid", status |-> "completed", stems |-> MockStems(types),
     processing_time |-> 0]

\* the pipeline's steps, in the order of the spec's state machine
Steps == << "Workspace", "Downloading", "ModelLoading", "Separating",
            "Uploading", "Notifying" >>

NoResult == [status |-> "none", stems_count |-> 0]
NoFs == [exists |-> FALSE, files |-> {}]

VARIABLES
    active,      \* the workers that were handed a job
    pc,          \* [worker -> position in process_audio_split]
    temp_dir,    \* [worker -> 0 (None) or the directory mkdtemp returned]
    fs,          \* [directory -> whether it exists and the files in it]
    stems,       \* [worker -> the stem names separate_audio returned]
    todo,        \* [worker -> the stems upload_stems still has to walk]
    stem_infos,  \* [worker -> the StemInfo list built so far]
    storage,     \* the keys of the objects in the bucket
    posts,       \* the POSTs made to the callback URL, in order
    broker,      \* [worker -> the states recorded through update_state]
    exc,         \* [worker -> the exception `except Exception as e` caught]
    pending,     \* [worker -> the exception in flight when finally runs]
    notify_exc,  \* [worker -> the error the failure notification ended with]
    result,      \* [worker -> the value returned]
    raised,      \* [worker -> the exception that left the invocation]
    log,         \* [worker -> the steps started, in order]
    returned,    \* [worker -> the steps that returned successfully]
    builds,      \* [worker -> the statuses WebhookPayload was called with]
    payloads,    \* [worker -> the payloads successfully built]
    rm_failed,   \* [worker -> whether shutil.rmtree raised]
    uploads,     \* the upload_to_s3 calls of upload_stems, in order, each
                 \* with whether the probe before it gave a duration
    s3_pc,       \* position of the S3Service call inside the retry loop
    s3_op,       \* the operation called
    s3_bucket,   \* whether a bucket is configured
    max_retries, \* self.max_retries of the S3Service instance
    attempts,    \* what each attempt of the operation ended with, in order
    client_calls,\* what each call of the boto3 client ended with, in order
    sleeps,      \* the backoff sleeps, in order
    s3_log,      \* the retry engine's log entries, in order
    s3_return,   \* what the call returned to its caller
    s3_raise,    \* what the call raised to its caller
    now,         \* what int(time.time()) reads
    calls,       \* the calls made to security.py and /split, in order
    demucssvc_token, \* settings.demucssvc_token
    api_webhook_url_allowlist, \* settings.api_webhook_url_allowlist
    hook_pc,     \* position inside send_webhook_with_retry
    hook_max_retries, \* its max_retries argument
    attempt,     \* its loop variable
    hook_trace,  \* its sleeps and send_webhook calls, in order
    hook_return, \* what it returned
    hook_raise,  \* what it raised
    hook_payload,\* its payload argument
    hook_posts,  \* the requests.post calls of its attempts, in order
    mock_pc,     \* position inside mock_process_audio_split
    stem_types,  \* its stem_types argument
    mock_posts,  \* the client.post calls it made, in order
    mock_return, \* what it returned
    mock_raise   \* what it raised

pipeline_vars == << active, pc, temp_dir, fs, stems, todo, stem_infos, storage,
                    posts, broker, exc, pending, notify_exc, result, raised,
                    log, returned, builds, payloads, rm_failed, uploads >>

s3_vars == << s3_pc, s3_op, s3_bucket, max_retries, attempts, client_calls,
             sleeps, s3_log, s3_return, s3_raise >>

sec_vars == << now, calls, demucssvc_token, api_webhook_url_allowlist >>

hook_vars == << hook_pc, hook_max_retries, attempt, hook_trace, hook_return,
               hook_raise, hook_payload, hook_posts >>

mock_vars == << mock_pc, stem_types, mock_posts, mock_return, mock_raise >>

vars == << pipeline_vars, s3_vars, sec_vars, hook_vars, mock_vars >>

\* the job a worker runs: version ids are unique per job
version_id(w) == w

Progress(status) == [state |-> "PROGRESS", info |-> status]
Failure(error_msg) == [state |-> "FAILURE", info |-> error_msg]

PipelineIdle(act) ==
    /\ active = act
    /\ pc = [w \in Workers |-> "queued"]
    /\ temp_dir = [w \in Workers |-> 0]
    /\ fs = [d \in Dirs |-> NoFs]
    /\ stems = [w \in Workers |-> << >>]
    /\ todo = [w \in Workers |-> << >>]
    /\ stem_infos = [w \in Workers |-> << >>]
    /\ storage = {}
    /\ posts = << >>
    /\ broker = [w \in Workers |-> << >>]
    /\ exc = [w \in Workers |-> NoExc]
    /\ pending = [w \in Workers |-> NoExc]
    /\ notify_exc = [w \in Workers |-> NoExc]
    /\ result = [w \in Workers |-> NoResult]
    /\ raised = [w \in Workers |-> NoExc]
    /\ log = [w \in Workers |-> << >>]
    /\ returned = [w \in Workers |-> {}]
    /\ builds = [w \in Workers |-> << >>]
    /\ payloads = [w \in Workers |-> << >>]
    /\ rm_failed = [w \in Workers |-> FALSE]
    /\ uploads = << >>

S3Idle(position) ==
    /\ s3_pc = position
    /\ s3_op \in S3Ops
    /\ s3_bucket \in BOOLEAN
    /\ max_retries \in MaxRetriesChoices
    /\ attempts = << >>
    /\ client_calls = << >>
    /\ sleeps = << >>
    /\ s3_log = << >>
    /\ s3_return = S3None
    /\ s3_raise = S3None

\* no call made yet to the signing functions or the front door
SecIdle(tokens, allowlists) ==
    /\ now = 1
    /\ calls = << >>
    /\ demucssvc_token \in tokens
    /\ api_webhook_url_allowlist \in allowlists

\* send_webhook_with_retry about to be called; range(max_retries + 1) starts
\* at attempt 0
HookIdle(args) ==
    /\ hook_pc = "loop"
    /\ hook_max_retries \in args
    /\ attempt = 0
    /\ hook_trace = << >>
    /\ hook_return = None
    /\ hook_raise = None
    \* a call with the default max_retries is given the 'completed' payload
    /\ hook_payload \in IF args = {3} THEN {CompletedPayload} ELSE HookPayloads
    /\ hook_posts = << >>

\* mock_process_audio_split about to build its 'completed' payload
MockIdle(lists) ==
    /\ mock_pc = "completed"
    /\ stem_types \in lists
    /\ mock_posts = << >>
    /\ mock_return = NoMockResult
    /\ mock_raise = None

\* one job handed to one worker of the pool; no storage call in progress
Init ==
    /\ SecIdle({"secret"}, {default_allowlist})
    /\ HookIdle({3})
    /\ MockIdle({<< "drums" >>})
    /\ \E w \in Workers : PipelineIdle({w})
    /\ S3Idle("unused")
    /\ s3_op = "upload_file" /\ s3_bucket /\ max_retries = S3_DEFAULT_MAX_RETRIES

(***************************************************************************)
(* process_audio_split, one action per step of its body.  An exception     *)
(* raised inside the try block is caught by `except Exception`: the model  *)
(* stores it in exc and moves to the handler.                              *)
(***************************************************************************)
\* more than one invocation is in flight
Crowded == Cardinality(active) > 1

\* What the environment can answer at each step.  While invocations run
\* side by side the answers are drawn from narrower sets: the result
\* backend accepts every update, the inference call produces one of two
\* sets of files, the probe gives a duration or times out, an upload is
\* stored or refused, and a failed rmtree removes every file or none.
BrokerCanFail == ~Crowded
ProductionChoices ==
    IF Crowded THEN { << "vocals", "drums" >>, << "accompaniment", "drums" >> }
    ELSE ProductionOrders
LeftChoices(files) == IF Crowded THEN {files, {}} ELSE SUBSET files

\* a workspace name shared by every invocation
SharedDirs == Dirs

\* tempfile.mkdtemp creates a directory that did not exist before
FreshDirs == { d \in Dirs : ~fs[d].exists }

\* a variant that retries a failed download once at pipeline level
CaughtRetryDownload(w, e) ==
    /\ exc' = [exc EXCEPT ![w] = e]
    /\ pc' = [pc EXCEPT ![w] = IF pc[w] = "download" /\ exc[w] = NoExc
                               THEN "download" ELSE "except"]

Caught(w, e) ==
    /\ exc' = [exc EXCEPT ![w] = e]
    /\ pc' = [pc EXCEPT ![w] = "except"]

Record(w, entry) == broker' = [broker EXCEPT ![w] = Append(@, entry)]

Started(w, step) == log' = [log EXCEPT ![w] = Append(@, step)]

Returned(w, step) == returned' = [returned EXCEPT ![w] = @ \cup {step}]

\* lines 52-57: the task starts and reports its first progress state
Start(w) ==
    /\ w \in active
    /\ pc[w] = "queued"
    /\ \/ /\ Record(w, Progress("Starting audio separation"))
          /\ pc' = [pc EXCEPT ![w] = "mkdtemp"]
          /\ UNCHANGED exc
       \/ /\ BrokerCanFail
          /\ Caught(w, BrokerError)
          /\ UNCHANGED broker
    /\ UNCHANGED << s3_vars, sec_vars, hook_vars, mock_vars >>
    /\ UNCHANGED << pending, active, uploads, temp_dir, fs, stems, todo, stem_infos, storage,
                    posts, notify_exc, result, raised, log, returned, builds,
                    payloads, rm_failed >>

\* lines 59-61: tempfile.mkdtemp creates a directory that did not exist
CreateWorkspace(w) ==
    /\ pc[w] = "mkdtemp"
    /\ Started(w, "Workspace")
    /\ \/ /\ \E d \in FreshDirs :
                /\ fs' = [fs EXCEPT ![d] = [exists |-> TRUE, files |-> {}]]
                /\ temp_dir' = [temp_dir EXCEPT ![w] = d]
          /\ Returned(w, "Workspace")
          /\ pc' = [pc EXCEPT ![w] = "download"]
          /\ UNCHANGED exc
       \/ /\ Caught(w, MkdtempError)
          /\ UNCHANGED << fs, temp_dir, returned >>
    /\ UNCHANGED << s3_vars, sec_vars, hook_vars, mock_vars >>
    /\ UNCHANGED << pending, active, uploads, stems, todo, stem_infos, storage, posts, broker,
                    notify_exc, result, raised, builds, payloads, rm_failed >>

\* lines 63-65 and download_audio: the input lands in the workspace; a
\* failed download may leave a partly written input file behind
Download(w) ==
    /\ pc[w] = "download"
    /\ \/ /\ Record(w, Progress("Downloading audio"))
          /\ Started(w, "Downloading")
          /\ \/ /\ fs' = [fs EXCEPT ![temp_dir[w]].files = @ \cup {"input"}]
                /\ Returned(w, "Downloading")
                /\ pc' = [pc EXCEPT ![w] = "load"]
                /\ UNCHANGED exc
             \/ /\ \E partial \in BOOLEAN :
                     fs' = [fs EXCEPT ![temp_dir[w]].files =
                                IF partial THEN @ \cup {"input"} ELSE @]
                /\ Caught(w, DownloadError)
                /\ UNCHANGED returned
       \/ /\ BrokerCanFail
          /\ Caught(w, BrokerError)
          /\ UNCHANGED << broker, log, fs, returned >>
    /\ UNCHANGED << s3_vars, sec_vars, hook_vars, mock_vars >>
    /\ UNCHANGED << pending, active, uploads, temp_dir, stems, todo, stem_infos, storage, posts,
                    notify_exc, result, raised, builds, payloads, rm_failed >>

\* lines 67-69 and load_demucs_model
LoadModel(w) ==
    /\ pc[w] = "load"
    /\ \/ /\ Record(w, Progress("Loading model"))
          /\ Started(w, "ModelLoading")
          /\ \/ /\ Returned(w, "ModelLoading")
                /\ pc' = [pc EXCEPT ![w] = "separate"]
                /\ UNCHANGED exc
             \/ /\ Caught(w, ModelLoadError)
                /\ UNCHANGED returned
       \/ /\ BrokerCanFail
          /\ Caught(w, BrokerError)
          /\ UNCHANGED << broker, log, returned >>
    /\ UNCHANGED << s3_vars, sec_vars, hook_vars, mock_vars >>
    /\ UNCHANGED << pending, active, uploads, temp_dir, fs, stems, todo, stem_infos, storage,
                    posts, notify_exc, result, raised, builds, payloads,
                    rm_failed >>

\* lines 71-73 and separate_audio: the inference call writes files into the
\* model's output directory (or creates none), then the canonical names
\* whose file exists are collected in the order of stem_names
Separate(w) ==
    /\ pc[w] = "separate"
    /\ \/ /\ Record(w, Progress("Separating audio"))
          /\ Started(w, "Separating")
          /\ \/ \E produced \in ProductionChoices :
                   /\ fs' = [fs EXCEPT ![temp_dir[w]].files =
                                          @ \cup FilesOf(produced)]
                   /\ stems' = [stems EXCEPT ![w] =
                                    CollectStems(1, fs'[temp_dir[w]].files)]
                   /\ Returned(w, "Separating")
                   /\ pc' = [pc EXCEPT ![w] = "upload"]
                   /\ UNCHANGED exc
             \/ /\ Caught(w, SeparationError)
                /\ UNCHANGED << fs, stems, returned >>
       \/ /\ BrokerCanFail
          /\ Caught(w, BrokerError)
          /\ UNCHANGED << broker, log, fs, stems, returned >>
    /\ UNCHANGED << s3_vars, sec_vars, hook_vars, mock_vars >>
    /\ UNCHANGED << pending, active, uploads, temp_dir, todo, stem_infos, storage, posts,
                    notify_exc, result, raised, builds, payloads, rm_failed >>

\* lines 75-77 and the head of upload_stems: stem_infos starts empty and the
\* loop walks stem_files from the front
UploadBegin(w) ==
    /\ pc[w] = "upload"
    /\ \/ /\ Record(w, Progress("Uploading stems"))
          /\ Started(w, "Uploading")
          /\ stem_infos' = [stem_infos EXCEPT ![w] = << >>]
          /\ todo' = [todo EXCEPT ![w] = stems[w]]
          /\ IF stems[w] = << >>
             THEN /\ Returned(w, "Uploading")
                  /\ pc' = [pc EXCEPT ![w] = "notify"]
             ELSE /\ pc' = [pc EXCEPT ![w] = "upload_stem"]
                  /\ UNCHANGED returned
          /\ UNCHANGED exc
       \/ /\ BrokerCanFail
          /\ Caught(w, BrokerError)
          /\ UNCHANGED << broker, log, stem_infos, todo, returned >>
    /\ UNCHANGED << s3_vars, sec_vars, hook_vars, mock_vars >>
    /\ UNCHANGED << pending, active, uploads, temp_dir, fs, stems, storage, posts, notify_exc,
                    result, raised, builds, payloads, rm_failed >>

\* what running ffprobe on a stem file can end with: a duration, a
\* non-zero exit status, or an exception inside the try block (the timeout
\* of subprocess.run, an output float() cannot parse, a missing binary)
ProbeOutcomes == {"ok", "nonzero_exit", "timeout", "unparsable",
                  "missing_binary"}

\* a probe whose exceptions are not caught
get_audio_duration_strict(probe) ==
    IF probe = "ok" THEN Value(180)
    ELSE IF probe = "nonzero_exit" THEN Value(0)
    ELSE Raise("ProbeError")

\* get_audio_duration (lines 265-285): the parsed duration when ffprobe
\* exits with 0, 0.0 when it exits otherwise (line 279) and 0.0 from the
\* except clause (lines 283-285)
get_audio_duration(probe) ==
    IF probe = "ok" THEN Value(180) ELSE Value(0)

\* the durations a StemInfo can carry
ProbeDurations == { get_audio_duration(probe).value : probe \in ProbeOutcomes }

\* what upload_to_s3 (s3.py lines 44-84) ends with: the URL, a ClientError
\* with a transient code, or another error; the call is made once
UploadOutcomes == {"ok", "SlowDown", "error"}

ProbeChoices == IF Crowded THEN {"ok", "timeout"} ELSE ProbeOutcomes
UploadChoices == IF Crowded THEN {"ok", "error"} ELSE UploadOutcomes

UploadCall(w, stem_name, probe, o) ==
    [job |-> w, stem |-> stem_name, key |-> StemKey(version_id(w), stem_name),
     probed |-> (probe = "ok"), outcome |-> o]

\* upload_stems, one pass of the loop: checksum, size, duration probe,
\* upload_to_s3 under "<version_id>/<stem>.wav", append the StemInfo; any
\* exception of the pass is logged and re-raised (lines 258-260)
UploadStem(w) ==
    /\ pc[w] = "upload_stem"
    /\ \E probe \in ProbeChoices, o \in UploadChoices :
          LET stem_name == Head(todo[w])
              duration == get_audio_duration(probe) IN
          IF duration.raised # None
          THEN /\ Caught(w, ProbeError)
               /\ UNCHANGED << storage, stem_infos, todo, returned, uploads >>
          ELSE /\ uploads' = Append(uploads, UploadCall(w, stem_name, probe, o))
               /\ IF o = "ok"
                  THEN /\ storage' = storage
                                       \cup {StemKey(version_id(w), stem_name)}
                       /\ stem_infos' = [stem_infos EXCEPT ![w] =
                              Append(@, StemInfo(version_id(w), stem_name,
                                                 duration.value))]
                       /\ todo' = [todo EXCEPT ![w] = Tail(@)]
                       /\ IF Tail(todo[w]) = << >>
                          THEN /\ Returned(w, "Uploading")
                               /\ pc' = [pc EXCEPT ![w] = "notify"]
                          ELSE UNCHANGED << returned, pc >>
                       /\ UNCHANGED exc
                  ELSE /\ Caught(w, IF o = "SlowDown"
                                    THEN TransientUploadError
                                    ELSE UploadError)
                       /\ UNCHANGED << storage, stem_infos, todo, returned >>
    /\ UNCHANGED << s3_vars, sec_vars, hook_vars, mock_vars >>
    /\ UNCHANGED << pending, active, temp_dir, fs, stems, posts, broker, notify_exc,
                    result, raised, log, builds, payloads, rm_failed >>

\* send_webhook (lines 288-306): one POST; any failure is logged and re-raised
Post(w, payload, o) ==
    [job |-> w, status |-> payload.status, stems |-> payload.stems,
     error |-> payload.error, delivered |-> SendDelivered(o)]

\* lines 79-102: build the 'completed' payload, report progress, send it and
\* return the result object; the finally block is next
NotifyCompleted(w) ==
    /\ pc[w] = "notify"
    /\ Started(w, "Notifying")
    /\ builds' = [builds EXCEPT ![w] = Append(@, "completed")]
    /\ LET kw == CompletedKwargs(version_id(w), stem_infos[w]) IN
       IF ~WebhookPayloadValid(kw)
       THEN /\ Caught(w, ValidationError)
            /\ UNCHANGED << payloads, broker, posts, returned, result >>
       ELSE /\ payloads' = [payloads EXCEPT ![w] = Append(@, WebhookPayload(kw))]
            /\ \/ /\ Record(w, Progress("Sending webhook"))
                  /\ \E o \in SendOutcomes :
                       /\ posts' = Append(posts, Post(w, WebhookPayload(kw), o))
                       /\ IF o = "ok"
                          THEN /\ Returned(w, "Notifying")
                               /\ result' = [result EXCEPT ![w] =
                                      [status |-> "completed",
                                       stems_count |-> Len(stem_infos[w])]]
                               /\ pc' = [pc EXCEPT ![w] = "finally"]
                               /\ UNCHANGED exc
                          ELSE /\ Caught(w, SendError(o))
                               /\ UNCHANGED << returned, result >>
               \/ /\ BrokerCanFail
                  /\ Caught(w, BrokerError)
                  /\ UNCHANGED << broker, posts, returned, result >>
    /\ UNCHANGED << s3_vars, sec_vars, hook_vars, mock_vars >>
    /\ UNCHANGED << pending, active, uploads, temp_dir, fs, stems, todo, stem_infos, storage,
                    notify_exc, raised, rm_failed >>

\* lines 104-121: the handler builds and sends the 'failed' payload inside
\* its own try; an error there is logged and dropped
\* a handler that deletes the objects the failed job had stored
StorageRolledBack(w) ==
    storage \ { StemKey(version_id(w), stem_name) : stem_name \in StemSet }

\* lines 104-129: the except handler makes no storage call
StorageAfterFailure(w) == storage

HandleError(w) ==
    /\ pc[w] = "except"
    /\ storage' = StorageAfterFailure(w)
    /\ builds' = [builds EXCEPT ![w] = Append(@, "failed")]
    /\ LET error_msg == str(exc[w])
           kw == FailedKwargs(version_id(w), error_msg) IN
       IF ~WebhookPayloadValid(kw)
       THEN /\ notify_exc' = [notify_exc EXCEPT ![w] = ValidationError]
            /\ UNCHANGED << payloads, posts >>
       ELSE /\ payloads' = [payloads EXCEPT ![w] = Append(@, WebhookPayload(kw))]
            /\ \E o \in SendOutcomes :
                 /\ posts' = Append(posts, Post(w, WebhookPayload(kw), o))
                 /\ notify_exc' = [notify_exc EXCEPT ![w] = SendError(o)]
    /\ pc' = [pc EXCEPT ![w] = "record_failure"]
    /\ UNCHANGED << s3_vars, sec_vars, hook_vars, mock_vars >>
    /\ UNCHANGED << pending, active, uploads, temp_dir, fs, stems, todo, stem_infos,
                    broker, exc, result, raised, log, returned, rm_failed >>

\* lines 123-129: record FAILURE with the original message, then the bare
\* `raise` re-raises the exception being handled; if update_state itself
\* raises, that error leaves the handler instead
\* a variant in which the notification's error is the one that propagates
ReraisedNotifyError(w) ==
    IF notify_exc[w] # NoExc THEN notify_exc[w] ELSE exc[w]

\* line 129: the bare `raise` re-raises the exception the handler caught
Reraised(w) == exc[w]

\* a cleanup placed after the handler's last statement: an exception
\* raised by update_state leaves the function without reaching it
HandlerRaisedPastCleanup == "done"

\* lines 131-136: the cleanup is a finally clause, so an exception raised
\* inside the except handler reaches it too
HandlerRaised == "finally"

RecordFailure(w) ==
    /\ pc[w] = "record_failure"
    /\ \/ /\ Record(w, Failure(str(exc[w])))
          /\ pending' = [pending EXCEPT ![w] = Reraised(w)]
          /\ pc' = [pc EXCEPT ![w] = "finally"]
       \/ /\ BrokerCanFail
          /\ pending' = [pending EXCEPT ![w] = BrokerError]
          /\ pc' = [pc EXCEPT ![w] = HandlerRaised]
          /\ UNCHANGED broker
    /\ UNCHANGED << s3_vars, sec_vars, hook_vars, mock_vars >>
    /\ UNCHANGED << exc, active, uploads, temp_dir, fs, stems, todo, stem_infos, storage,
                    posts, notify_exc, result, raised, log, returned, builds,
                    payloads, rm_failed >>

\* lines 131-136: the finally block.  rmtree removes the directory and its
\* contents; if rmtree raises, its error replaces the pending return value
\* or exception and the directory is still there
\* a variant that cleans up only when no exception is in flight
CleanupGuardOnSuccess(w) ==
    temp_dir[w] # 0 /\ fs[temp_dir[w]].exists /\ pending[w] = NoExc

\* line 133: `if temp_dir and os.path.exists(temp_dir)`
CleanupGuard(w) == temp_dir[w] # 0 /\ fs[temp_dir[w]].exists

Cleanup(w) ==
    /\ pc[w] = "finally"
    /\ pc' = [pc EXCEPT ![w] = "done"]
    /\ IF CleanupGuard(w)
       THEN \/ /\ fs' = [fs EXCEPT ![temp_dir[w]] = NoFs]
               /\ raised' = [raised EXCEPT ![w] = pending[w]]
               /\ UNCHANGED << result, rm_failed >>
            \/ /\ \E left \in LeftChoices(fs[temp_dir[w]].files) :
                    fs' = [fs EXCEPT ![temp_dir[w]].files = left]
               /\ raised' = [raised EXCEPT ![w] = RmtreeError]
               /\ result' = [result EXCEPT ![w] = NoResult]
               /\ rm_failed' = [rm_failed EXCEPT ![w] = TRUE]
       ELSE /\ raised' = [raised EXCEPT ![w] = pending[w]]
            /\ UNCHANGED << fs, result, rm_failed >>
    /\ UNCHANGED << s3_vars, sec_vars, hook_vars, mock_vars >>
    /\ UNCHANGED << pending, active, uploads, temp_dir, stems, todo, stem_infos, storage, posts,
                    broker, exc, notify_exc, log, returned, builds, payloads >>

Next ==
    \E w \in Workers :
        \/ Start(w)
        \/ CreateWorkspace(w)
        \/ Download(w)
        \/ LoadModel(w)
        \/ Separate(w)
        \/ UploadBegin(w)
        \/ UploadStem(w)
        \/ NotifyCompleted(w)
        \/ HandleError(w)
        \/ RecordFailure(w)
        \/ Cleanup(w)

Spec == Init /\ [][Next]_vars

\* two jobs handed to the two workers of the pool at once
InitPool ==
    /\ SecIdle({"secret"}, {default_allowlist})
    /\ HookIdle({3})
    /\ MockIdle({<< "drums" >>})
    /\ PipelineIdle(Workers)
    /\ S3Idle("unused")
    /\ s3_op = "upload_file" /\ s3_bucket /\ max_retries = S3_DEFAULT_MAX_RETRIES

SpecPool == InitPool /\ [][Next]_vars

(***************************************************************************)
(* One call of mock_process_audio_split.                                   *)
(***************************************************************************)
MockFinish(value, exception) ==
    /\ mock_pc' = "done"
    /\ mock_return' = value
    /\ mock_raise' = exception

\* lines 57-87 and 112-117: build the 'completed' payload and POST it; a
\* response, whatever its status, leads to the return statement, an
\* exception to the except clause
MockSendCompleted ==
    /\ mock_pc = "completed"
    /\ LET kw == MockCompletedKwargs(stem_types) IN
       IF ~WebhookPayloadValid(kw)
       THEN /\ MockFinish(NoMockResult, "ValidationError")
            /\ UNCHANGED mock_posts
       ELSE \E o \in MockPostOutcomes :
               /\ mock_posts' = Append(mock_posts,
                                       MockPost(WebhookPayload(kw), o))
               /\ IF PostRaised(o)
                  THEN /\ mock_pc' = "failed"
                       /\ UNCHANGED << mock_return, mock_raise >>
                  ELSE MockFinish(MockResult(stem_types), None)
    /\ UNCHANGED stem_types
    /\ UNCHANGED << pipeline_vars, s3_vars, sec_vars, hook_vars >>

\* lines 89-117: inside the except clause, build the 'failed' payload and
\* POST it; whatever that POST does, an exception included (lines 109-110),
\* the function goes on to the return statement
MockSendFailed ==
    /\ mock_pc = "failed"
    /\ LET e == mock_posts[Len(mock_posts)].outcome
           kw == MockFailedKwargs(e) IN
       IF ~WebhookPayloadValid(kw)
       THEN UNCHANGED mock_posts
       ELSE \E o \in MockPostOutcomes :
               mock_posts' = Append(mock_posts, MockPost(WebhookPayload(kw), o))
    /\ MockFinish(MockResult(stem_types), None)
    /\ UNCHANGED stem_types
    /\ UNCHANGED << pipeline_vars, s3_vars, sec_vars, hook_vars >>

\* a call with any list of stem types
InitMock ==
    /\ PipelineIdle({})
    /\ S3Idle("unused")
    /\ s3_op = "upload_file" /\ s3_bucket /\ max_retries = S3_DEFAULT_MAX_RETRIES
    /\ SecIdle({"secret"}, {default_allowlist})
    /\ HookIdle({3})
    /\ MockIdle(StemTypeLists)

NextMock == MockSendCompleted \/ MockSendFailed

SpecMock == InitMock /\ [][NextMock]_vars

(***************************************************************************)
(* One call of an S3Service operation under the @retry decorator           *)
(* (tenacity's Retrying loop around the operation's body).                 *)
(***************************************************************************)
S3Finish(ret, exception) ==
    /\ s3_pc' = "done"
    /\ s3_return' = ret
    /\ s3_raise' = exception
    /\ UNCHANGED sleeps

\* what the engine does once an attempt ended with outcome o
S3AfterAttempt(o) ==
    LET attempt_number == Len(attempts) + 1 IN
    IF o.type = "ok"
    THEN /\ S3Finish(o, S3None)
         /\ UNCHANGED s3_log
    ELSE LET decision == RetryPredicate([outcome |-> o]) IN
         IF decision.raises
         THEN /\ S3Finish(S3None, S3Exc("AttributeError", ""))
              /\ UNCHANGED s3_log
         ELSE IF ~decision.value
         THEN /\ S3Finish(S3None, o)
              /\ UNCHANGED s3_log
         ELSE IF stop_after_attempt(S3_DEFAULT_MAX_RETRIES, attempt_number)
         THEN /\ S3Finish(S3None, IF reraise THEN o ELSE RetryError)
              /\ s3_log' = Append(s3_log, "info")
         ELSE /\ \E delay \in WaitChoices(attempt_number) :
                    sleeps' = Append(sleeps, delay)
              /\ s3_log' = s3_log \o << "info", "warning" >>
              /\ s3_pc' = "sleep"
              /\ UNCHANGED << s3_return, s3_raise >>

\* one attempt: _get_bucket, the client call, the body's except clauses,
\* then the engine's decision
S3Attempt ==
    /\ s3_pc = "attempt"
    /\ IF ~s3_bucket
       THEN /\ attempts' = Append(attempts, BucketOutcome(s3_op))
            /\ S3AfterAttempt(BucketOutcome(s3_op))
            /\ UNCHANGED client_calls
       ELSE \E o \in ClientOutcomes :
               /\ client_calls' = Append(client_calls, o)
               /\ attempts' = Append(attempts, BodyOutcome(s3_op, o))
               /\ S3AfterAttempt(BodyOutcome(s3_op, o))
    /\ UNCHANGED << s3_op, s3_bucket, max_retries >>
    /\ UNCHANGED << pipeline_vars, sec_vars, hook_vars, mock_vars >>

\* the backoff sleep ends and the next attempt starts
S3Sleep ==
    /\ s3_pc = "sleep"
    /\ s3_pc' = "attempt"
    /\ UNCHANGED << s3_op, s3_bucket, max_retries, attempts, client_calls,
                    sleeps, s3_log, s3_return, s3_raise >>
    /\ UNCHANGED << pipeline_vars, sec_vars, hook_vars, mock_vars >>

\* an S3Service built with any limits, about to run one operation
InitS3 ==
    /\ PipelineIdle({})
    /\ SecIdle({"secret"}, {default_allowlist})
    /\ HookIdle({3})
    /\ MockIdle({<< "drums" >>})
    /\ S3Idle("attempt")

NextS3 == S3Attempt \/ S3Sleep

SpecS3 == InitS3 /\ [][NextS3]_vars

(***************************************************************************)
(* Calls of security.py while the clock runs.                              *)
(***************************************************************************)
\* a second passes
Tick ==
    /\ now < MaxClock
    /\ now' = now + 1
    /\ UNCHANGED << calls, demucssvc_token, api_webhook_url_allowlist >>
    /\ UNCHANGED << pipeline_vars, s3_vars, hook_vars, mock_vars >>

Call(record) ==
    /\ Len(calls) < MaxCalls
    /\ calls' = Append(calls, record)
    /\ UNCHANGED << demucssvc_token, api_webhook_url_allowlist >>
    /\ UNCHANGED << pipeline_vars, s3_vars, hook_vars, mock_vars >>

\* create_hmac_signature(payload, timestamp)
Sign ==
    \E payload \in Payloads, timestamp \in Timestamps \cup {NoTimestamp} :
        /\ Call([fn |-> "create_hmac_signature", payload |-> payload,
                 timestamp |-> timestamp, at |-> now,
                 result |-> create_hmac_signature(demucssvc_token, payload,
                                                  timestamp, now)])
        /\ UNCHANGED now

\* verify_hmac_signature(payload, signature, timestamp)
Verify ==
    \E payload \in Payloads, timestamp \in Timestamps \cup {NoTimestamp},
       signature \in Signatures(demucssvc_token, Payloads) :
        /\ Call([fn |-> "verify_hmac_signature", payload |-> payload,
                 signature |-> signature, timestamp |-> timestamp,
                 at |-> now,
                 result |-> verify_hmac_signature(demucssvc_token, payload,
                                                  signature, timestamp, now)])
        /\ UNCHANGED now

\* get_webhook_headers(payload, timestamp); the clock may move on between
\* line 105 and the call of create_hmac_signature
Headers ==
    \E payload \in Payloads, timestamp \in Timestamps \cup {NoTimestamp},
       later \in Clock :
        /\ later >= now
        /\ now' = later
        /\ Call([fn |-> "get_webhook_headers", payload |-> payload,
                 timestamp |-> timestamp, at |-> now, until |-> later,
                 result |-> get_webhook_headers(demucssvc_token, payload,
                                                timestamp, now, later)])

InitSec ==
    /\ PipelineIdle({})
    /\ S3Idle("unused")
    /\ s3_op = "upload_file" /\ s3_bucket /\ max_retries = S3_DEFAULT_MAX_RETRIES
    /\ SecIdle({"secret"}, {default_allowlist})
    /\ HookIdle({3})
    /\ MockIdle({<< "drums" >>})

NextSec == Tick \/ Sign \/ Verify \/ Headers

SpecSec == InitSec /\ [][NextSec]_vars

(***************************************************************************)
(* main.py: the /split front door.                                         *)
(***************************************************************************)
\* is_webhook_url_allowed(webhook_url)
UrlCheck ==
    \E webhook_url \in Urls :
        /\ Call([fn |-> "is_webhook_url_allowed", webhook_url |-> webhook_url,
                 at |-> now,
                 result |-> is_webhook_url_allowed(api_webhook_url_allowlist,
                                                   webhook_url)])
        /\ UNCHANGED now

Response(request, x_signature, status, checks, job) ==
    [fn |-> "split_audio", request |-> request, x_signature |-> x_signature,
     at |-> now, status |-> status, checks |-> checks, job |-> job]

\* POST /split (lines 27-31 and 74-126)
SplitAudio ==
    \E request \in Requests, start \in StartOutcomes,
       x_signature \in
           Signatures(demucssvc_token,
                      { model_dump_json(r) : r \in Requests }) \cup {<< >>} :
        LET request_body == model_dump_json(request)
            verified == verify_hmac_signature(demucssvc_token, request_body,
                                              x_signature, NoTimestamp, now)
            allowed == is_webhook_url_allowed(api_webhook_url_allowlist,
                                              request.callback_url)
            runner == IF demucssvc_token = "mock-token-for-development"
                      THEN "mock_process_audio_split"
                      ELSE "process_audio_split"
            respond(status, checks, job) ==
                Response(request, x_signature, status, checks, job)
        IN  /\ UNCHANGED now
            /\ IF x_signature = << >>
               THEN Call(respond(401, << >>, None))
               ELSE IF verified.raised # None
               THEN Call(respond(500, << "verify_hmac_signature" >>, None))
               ELSE IF ~verified.value
               THEN Call(respond(401, << "verify_hmac_signature" >>, None))
               ELSE IF ~allowed
               THEN Call(respond(400, << "verify_hmac_signature",
                                         "is_webhook_url_allowed" >>, None))
               ELSE IF start = "error"
               THEN Call(respond(500, << "verify_hmac_signature",
                                         "is_webhook_url_allowed",
                                         runner >>, None))
               ELSE Call(respond(200, << "verify_hmac_signature",
                                         "is_webhook_url_allowed",
                                         runner >>, runner))

InitDoor ==
    /\ PipelineIdle({})
    /\ S3Idle("unused")
    /\ s3_op = "upload_file" /\ s3_bucket /\ max_retries = S3_DEFAULT_MAX_RETRIES
    /\ SecIdle(Tokens, Allowlists)
    /\ HookIdle({3})
    /\ MockIdle({<< "drums" >>})

NextDoor == Tick \/ UrlCheck \/ SplitAudio

SpecDoor == InitDoor /\ [][NextDoor]_vars

(***************************************************************************)
(* webhook.py: one call of send_webhook_with_retry.                        *)
(***************************************************************************)
HookFinish(value, exception) ==
    /\ hook_pc' = "done"
    /\ hook_return' = value
    /\ hook_raise' = exception
    /\ UNCHANGED attempt

\* lines 74-79: before every attempt but the first, sleep 2 ** attempt
HookBackoff ==
    /\ hook_pc = "loop"
    /\ attempt <= hook_max_retries
    /\ attempt > 0
    /\ hook_trace' = Append(hook_trace, HookSleep(attempt))
    /\ now' = now + backoff_delay(attempt)
    /\ hook_pc' = "send"
    /\ UNCHANGED << hook_max_retries, attempt, hook_return, hook_raise,
                    hook_payload, hook_posts >>
    /\ UNCHANGED << calls, demucssvc_token, api_webhook_url_allowlist >>
    /\ UNCHANGED << pipeline_vars, s3_vars, mock_vars >>

\* lines 81-86: one send_webhook call; True ends the loop, a failure of the
\* last attempt returns False, any other failure goes round the loop.  The
\* call serialises the payload, builds the headers from the clock and
\* POSTs both, unless it fails before the POST; the clock may move on
\* while it runs
HookAttempt ==
    /\ \/ hook_pc = "send"
       \/ hook_pc = "loop" /\ attempt = 0 /\ attempt <= hook_max_retries
    /\ \E o \in HookOutcomes, later \in {now, now + 1} :
          LET sent == send_webhook(o)
              body == payload_json(hook_payload)
              headers == get_webhook_headers(demucssvc_token, body,
                                             NoTimestamp, now, later) IN
          /\ hook_trace' = Append(hook_trace, HookSend(attempt, o))
          /\ now' = later
          /\ hook_posts' =
                IF o = "unexpected" THEN hook_posts
                ELSE Append(hook_posts,
                            HookPost(attempt, body,
                                     HeadersSent(headers, hook_posts), now))
          /\ IF sent.raised # None THEN HookFinish(None, sent.raised)
             ELSE IF sent.value THEN HookFinish("True", None)
             ELSE IF attempt = hook_max_retries
             THEN HookFinish("False", None)
             ELSE /\ attempt' = attempt + 1
                  /\ hook_pc' = "loop"
                  /\ UNCHANGED << hook_return, hook_raise >>
    /\ UNCHANGED << hook_max_retries, hook_payload >>
    /\ UNCHANGED << calls, demucssvc_token, api_webhook_url_allowlist >>
    /\ UNCHANGED << pipeline_vars, s3_vars, mock_vars >>

\* line 88: the loop ended without an attempt (max_retries below 0)
HookNoAttempt ==
    /\ hook_pc = "loop"
    /\ attempt > hook_max_retries
    /\ HookFinish("False", None)
    /\ UNCHANGED << hook_max_retries, hook_trace, hook_payload, hook_posts >>
    /\ UNCHANGED << pipeline_vars, s3_vars, sec_vars, mock_vars >>

InitHook ==
    /\ PipelineIdle({})
    /\ S3Idle("unused")
    /\ s3_op = "upload_file" /\ s3_bucket /\ max_retries = S3_DEFAULT_MAX_RETRIES
    /\ SecIdle({"secret"}, {default_allowlist})
    /\ HookIdle(MaxRetriesArgs)
    /\ MockIdle({<< "drums" >>})

NextHook == HookBackoff \/ HookAttempt \/ HookNoAttempt

SpecHook == InitHook /\ [][NextHook]_vars

(***************************************************************************)
(* Properties of process_audio_split (checked under Spec).                 *)
(***************************************************************************)
\* the errors of the four processing steps
StepErrors == {DownloadError, ModelLoadError, SeparationError, UploadError,
               TransientUploadError}
\* the errors send_webhook raises
WebhookErrors == {WebhookHTTPError, WebhookTimeout, WebhookConnectionError}

Done(w) == pc[w] = "done"
FailureRecorded(w) ==
    \E i \in DOMAIN broker[w] : broker[w][i].state = "FAILURE"
PostsOf(w) == SelectSeq(posts, LAMBDA p : p.job = w)
IsPrefix(s, t) == Len(s) <= Len(t) /\ SubSeq(t, 1, Len(s)) = s

\* C1: once an invocation that created a workspace has returned or raised,
\* the workspace directory no longer exists, on every exit path (all steps
\* succeeded, a step failed, the 'failed' or the 'completed' webhook could
\* not be sent) on which the removal call itself did not fail.
C1_WorkspaceRemoved ==
    \A w \in Workers :
        (Done(w) /\ temp_dir[w] # 0 /\ ~rm_failed[w])
            => ~fs[temp_dir[w]].exists

\* a step failed, the failure notification failed too, the workspace is gone
C1_Witness ==
    \E w \in Workers :
        /\ Done(w) /\ temp_dir[w] # 0 /\ ~rm_failed[w]
        /\ exc[w] \in StepErrors /\ notify_exc[w] # NoExc
        /\ ~fs[temp_dir[w]].exists

\* C2: when a processing step raised, exactly one webhook was POSTed, with
\* status 'failed', no stems and the error's message, and the same error
\* left the invocation.
C2_FailedWebhookPosted ==
    \A w \in Workers :
        (Done(w) /\ exc[w] \in StepErrors /\ FailureRecorded(w)
                 /\ ~rm_failed[w])
            => /\ Len(PostsOf(w)) = 1
               /\ PostsOf(w)[1].status = "failed"
               /\ PostsOf(w)[1].stems = << >>
               /\ PostsOf(w)[1].error = str(exc[w])
               /\ raised[w] = exc[w]

\* C3: when the four processing steps succeeded with n stems, exactly one
\* webhook was POSTed, 'completed' with n stems and no error, and the
\* invocation returned status 'completed' with a stem count of n.
C3_CompletedWebhookPosted ==
    \A w \in Workers :
        (Done(w) /\ "Uploading" \in returned[w] /\ ~rm_failed[w]
                 /\ exc[w] \notin WebhookErrors \cup {BrokerError})
            => /\ Len(PostsOf(w)) = 1
               /\ PostsOf(w)[1].status = "completed"
               /\ Len(PostsOf(w)[1].stems) = Len(stems[w])
               /\ PostsOf(w)[1].error = None
               /\ result[w] = [status |-> "completed",
                               stems_count |-> Len(stems[w])]

\* C4: when the processing steps succeeded and the 'completed' notification
\* failed, the invocation does not raise: it returns its result and no
\* FAILURE state is recorded with the broker.
C4_NotificationFailureNotRaised ==
    \A w \in Workers :
        (Done(w) /\ "Uploading" \in returned[w] /\ ~rm_failed[w]
                 /\ "Notifying" \in { log[w][i] : i \in DOMAIN log[w] }
                 /\ "Notifying" \notin returned[w]
                 /\ exc[w] # BrokerError)
            => /\ result[w].status = "completed"
               /\ raised[w] = NoExc
               /\ ~FailureRecorded(w)

\* C5: when a processing step failed and building or sending the 'failed'
\* webhook failed too, the FAILURE state recorded with the broker carries
\* the step error's message and the exception that leaves the invocation is
\* the step error, not the notification's error.
C5_OriginalErrorReraised ==
    \A w \in Workers :
        (Done(w) /\ exc[w] \in StepErrors /\ notify_exc[w] # NoExc
                 /\ FailureRecorded(w) /\ ~rm_failed[w])
            => /\ raised[w] = exc[w]
               /\ raised[w] # notify_exc[w]
               /\ broker[w][Len(broker[w])] = Failure(str(exc[w]))

\* an upload failed, the failure notification failed, the upload error left
C5_Witness ==
    \E w \in Workers :
        /\ Done(w) /\ exc[w] = UploadError /\ notify_exc[w] # NoExc
        /\ FailureRecorded(w) /\ raised[w] = UploadError

\* C6: the steps start in the order workspace, Downloading, ModelLoading,
\* Separating, Uploading, Notifying, each at most once; a step starts only
\* after its predecessor returned, so no step runs after a failed one.
C6_StrictStepOrder ==
    \A w \in Workers :
        /\ IsPrefix(log[w], Steps)
        /\ \A i \in 2 .. Len(log[w]) : Steps[i - 1] \in returned[w]
        /\ \A st \in returned[w] : \E i \in DOMAIN log[w] : log[w][i] = st

\* separation failed after three steps had run; nothing ran after it
C6_Witness ==
    \E w \in Workers :
        /\ Done(w) /\ exc[w] = SeparationError
        /\ log[w] = SubSeq(Steps, 1, 4)
        /\ returned[w] = {"Workspace", "Downloading", "ModelLoading"}

\* C7: WebhookPayload is constructed at most once per invocation, for
\* 'completed' or for 'failed' and never both, and a job that reached its
\* 'completed' payload is not afterwards recorded as failed.
C7_OnePayloadPerJob ==
    \A w \in Workers :
        /\ Len(builds[w]) <= 1
        /\ ~("completed" \in { builds[w][i] : i \in DOMAIN builds[w] }
             /\ FailureRecorded(w))

(***************************************************************************)
(* Properties of the retry engine (checked under SpecS3).                  *)
(***************************************************************************)
RetryableClientError(e) ==
    e.type = "ClientError" /\ e.code \in S3_RETRYABLE_ERROR_CODES
PermanentClientError(e) ==
    e.type = "ClientError" /\ e.code \notin S3_RETRYABLE_ERROR_CODES

\* the client failed with a retryable-code ClientError on every call
AlwaysThrottled ==
    /\ client_calls # << >>
    /\ \A i \in DOMAIN client_calls : RetryableClientError(client_calls[i])

C9_PermanentNotRetried ==
    (attempts # << >> /\ PermanentClientError(attempts[1]))
        => /\ s3_pc = "done"
           /\ Len(client_calls) = 1
           /\ sleeps = << >>
           /\ s3_raise = attempts[1]

\* C10: a FileNotFoundError (404) or ValueError (no bucket) raised inside an
\* operation is not retried and reaches the caller as that same error.
C10_NonTransientPropagates ==
    \A i \in DOMAIN attempts :
        attempts[i].type \in {"FileNotFoundError", "ValueError"}
            => /\ i = Len(attempts)
               /\ s3_pc = "done"
               /\ s3_raise = attempts[i]

\* the engine gave up because the attempts ran out: the last of
\* S3_DEFAULT_MAX_RETRIES attempts failed with an error it retries
Exhausted ==
    /\ s3_pc = "done"
    /\ Len(attempts) = S3_DEFAULT_MAX_RETRIES
    /\ attempts[S3_DEFAULT_MAX_RETRIES].type \in RETRYABLE_EXCEPTIONS

\* C11: when the retries of an operation are exhausted, the caller gets the
\* exception of the last attempt, same type and same error code, and nothing
\* is returned.
C11_LastErrorReraised ==
    Exhausted => /\ s3_raise = attempts[S3_DEFAULT_MAX_RETRIES]
                 /\ s3_return = S3None

\* get_object: two throttled attempts, then AccessDenied, which is raised
C11_Witness ==
    /\ Exhausted /\ s3_op = "get_object"
    /\ attempts[1] = S3Exc("ClientError", "Throttling")
    /\ attempts[S3_DEFAULT_MAX_RETRIES] = S3Exc("ClientError", "AccessDenied")
    /\ s3_raise = S3Exc("ClientError", "AccessDenied")

\* C12: the max_retries given to the constructor is the number of attempts
\* of that instance: an operation that gives up on throttling has called the
\* client max_retries times, and on an instance built with 4 an upload_file
\* throttled three times goes on to a fourth call.
C12_InstanceLimitsGovern ==
    /\ (s3_pc = "done" /\ AlwaysThrottled /\ s3_op # "test_connection")
          => Len(client_calls) = max_retries
    /\ (max_retries = 4 /\ s3_op = "upload_file" /\ AlwaysThrottled
          /\ Len(client_calls) = 3)
          => s3_pc # "done"

\* attempt numbers for which the backoff bound is evaluated
MaxAttemptNumber == 8

CallsOf(fn) == { i \in DOMAIN calls : calls[i].fn = fn }

\* C14: a verification that follows create_hmac_signature(P, T) and is
\* given "sha256=" + the digest, P and T returns true; given a payload, a
\* timestamp or a digest that differs from what was signed it returns false.
C14_VerifiesExactlyWhatWasSigned ==
    \A i \in CallsOf("create_hmac_signature") :
        \A j \in CallsOf("verify_hmac_signature") :
            LET signed == calls[i]
                check == calls[j]
                same == /\ check.payload = signed.payload
                        /\ check.timestamp = signed.timestamp
                        /\ check.signature = Prefix \o signed.result
                related == \/ check.signature = Prefix \o signed.result
                           \/ /\ check.payload = signed.payload
                              /\ check.timestamp = signed.timestamp
                              /\ IsPrefix(Prefix, check.signature)
            IN  (i < j /\ signed.timestamp # NoTimestamp
                       /\ check.timestamp # NoTimestamp /\ related)
                    => check.result = Value(same)

\* C15: a signature made with no timestamp is accepted by a later
\* verification of the same payload that passes no timestamp, whatever the
\* clock reads at the two calls.
C15_DefaultTimestampRoundTrip ==
    \A i \in CallsOf("create_hmac_signature") :
        \A j \in CallsOf("verify_hmac_signature") :
            (/\ i < j
             /\ calls[i].timestamp = NoTimestamp
             /\ calls[j].timestamp = NoTimestamp
             /\ calls[j].payload = calls[i].payload
             /\ calls[j].signature = Prefix \o calls[i].result)
                => calls[j].result = Value(TRUE)

\* C16: a verification of a signature value that does not start with
\* "sha256=" returns false, the bare correct digest included.
C16_PrefixRequired ==
    \A j \in CallsOf("verify_hmac_signature") :
        ~IsPrefix(Prefix, calls[j].signature)
            => calls[j].result = Value(FALSE)

\* the correct digest presented without the prefix, and refused
C16_Witness ==
    \E j \in CallsOf("verify_hmac_signature") :
        /\ calls[j].signature =
               create_hmac_signature(demucssvc_token, calls[j].payload,
                                     calls[j].timestamp, calls[j].at)
        /\ calls[j].result = Value(FALSE)

C18_HeadersCarrySignedTimestamp ==
    \A i \in CallsOf("get_webhook_headers") :
        LET headers == calls[i].result IN
        /\ DOMAIN headers = {"X-Signature", "X-Timestamp", "Content-Type"}
        /\ headers["Content-Type"] = << "application/json" >>
        /\ headers["X-Timestamp"] # NoTimestamp
        /\ \A time \in Clock :
              verify_hmac_signature(demucssvc_token, calls[i].payload,
                                    headers["X-Signature"],
                                    headers["X-Timestamp"], time)
                  = Value(TRUE)

\* headers asked for with no timestamp while the clock moved on
C18_Witness ==
    \E i \in CallsOf("get_webhook_headers") :
        /\ calls[i].timestamp = NoTimestamp
        /\ calls[i].at < calls[i].until
        /\ calls[i].result["X-Timestamp"] = IntToStr(calls[i].at)

\* the host of a netloc: what is left without the userinfo and the port
hostname(netloc) ==
    SelectSeq(netloc, LAMBDA piece : piece \notin {"user@", ":443"})

\* the claim's test: scheme and host present, and an allowlist entry with
\* that scheme, that host and a path that is a prefix of the URL's path
AllowedByHost(webhook_url) ==
    LET parsed_url == urlparse(webhook_url) IN
    /\ parsed_url.raised = None
    /\ parsed_url.value.scheme # << >>
    /\ hostname(parsed_url.value.netloc) # << >>
    /\ \E i \in DOMAIN api_webhook_url_allowlist :
          LET allowed == urlparse(api_webhook_url_allowlist[i]).value IN
          /\ parsed_url.value.scheme = allowed.scheme
          /\ hostname(parsed_url.value.netloc) = hostname(allowed.netloc)
          /\ IsPrefix(allowed.path, parsed_url.value.path)

\* the same test on the whole netloc: userinfo, host and port
AllowedByNetloc(webhook_url) ==
    LET parsed_url == urlparse(webhook_url) IN
    /\ parsed_url.raised = None
    /\ parsed_url.value.scheme # << >>
    /\ parsed_url.value.netloc # << >>
    /\ \E i \in DOMAIN api_webhook_url_allowlist :
          LET allowed == urlparse(api_webhook_url_allowlist[i]).value IN
          /\ parsed_url.value.scheme = allowed.scheme
          /\ parsed_url.value.netloc = allowed.netloc
          /\ IsPrefix(allowed.path, parsed_url.value.path)

\* C19 as stated: is_webhook_url_allowed returns true exactly for a URL with
\* a scheme and a host for which an allowlist entry has the identical
\* scheme, the identical host and a path that is a prefix of the URL's path.
C19_AllowedIffSchemeHostPath ==
    \A i \in CallsOf("is_webhook_url_allowed") :
        calls[i].result = AllowedByHost(calls[i].webhook_url)

\* C19: is_webhook_url_allowed returns true exactly for a URL with a scheme
\* and a netloc for which an allowlist entry has the identical scheme, the
\* identical netloc (userinfo, host and port) and a path that is a prefix
\* of the URL's path; for everything else, a string urlparse refuses
\* included, it returns false.
C19_AllowedIffSchemeNetlocPath ==
    \A i \in CallsOf("is_webhook_url_allowed") :
        /\ calls[i].result \in BOOLEAN
        /\ calls[i].result = AllowedByNetloc(calls[i].webhook_url)

\* a longer path under the allowlisted one is accepted, the allowlisted
\* host with a port is refused
C19_Witness ==
    \E i, j \in CallsOf("is_webhook_url_allowed") :
        /\ calls[i].webhook_url =
               << "https", ":", "//", "api.track-tree.com", "/webhooks",
                  "/demucs", "/x" >>
        /\ calls[i].result
        /\ calls[j].webhook_url =
               << "https", ":", "//", "api.track-tree.com", ":443",
                  "/webhooks", "/demucs" >>
        /\ ~calls[j].result

\* C20: /split starts a job only after verify_hmac_signature returned true
\* and then is_webhook_url_allowed returned true; a request whose signature
\* does not verify is answered 401 before the URL is looked at, one with a
\* verified signature and a disallowed callback URL is answered 400, and
\* neither starts a job.
C20_JobOnlyAfterBothChecks ==
    \A i \in CallsOf("split_audio") :
        LET call == calls[i]
            verified ==
                verify_hmac_signature(demucssvc_token,
                                      model_dump_json(call.request),
                                      call.x_signature, NoTimestamp, call.at)
                    = Value(TRUE)
            allowed == is_webhook_url_allowed(api_webhook_url_allowlist,
                                              call.request.callback_url)
        IN  /\ call.job # None
                => /\ verified /\ allowed
                   /\ IsPrefix(<< "verify_hmac_signature",
                                  "is_webhook_url_allowed" >>, call.checks)
            /\ ~verified
                => /\ call.status = 401 /\ call.job = None
                   /\ \A k \in DOMAIN call.checks :
                          call.checks[k] = "verify_hmac_signature"
            /\ (verified /\ ~allowed)
                => call.status = 400 /\ call.job = None

\* the warning-level entries of the retry engine's log
RECURSIVE CountOf(_, _)
CountOf(entry, entries) ==
    IF entries = << >> THEN 0
    ELSE (IF Head(entries) = entry THEN 1 ELSE 0) + CountOf(entry, Tail(entries))

\* C30: an operation that called the client m >= 1 times logged m - 1
\* warnings, one before each backoff sleep, none when the first call
\* succeeded; on an instance built with 4 attempts an upload_file throttled
\* three times has logged 3 warnings and goes on to its fourth call.
C30_WarningBeforeEachRetry ==
    /\ CountOf("warning", s3_log) = Len(sleeps)
    /\ (s3_pc = "done" /\ client_calls # << >>)
          => CountOf("warning", s3_log) = Len(client_calls) - 1
    /\ (max_retries = 4 /\ s3_op = "upload_file" /\ AlwaysThrottled
          /\ Len(client_calls) = 3)
          => /\ CountOf("warning", s3_log) = 3
             /\ s3_pc = "sleep"

\* the send_webhook calls and the sleeps of the trace
SendsOf(trace) == SelectSeq(trace, LAMBDA e : e.kind = "send")
SleepsOf(trace) == SelectSeq(trace, LAMBDA e : e.kind = "sleep")

\* C21: send_webhook_with_retry raises nothing; no attempt follows a
\* successful one; it returns True exactly when its last attempt succeeded
\* and False only after max_retries + 1 attempts that all failed, whatever
\* the failures were.
C21_NeverRaises ==
    LET sends == SendsOf(hook_trace) IN
    /\ hook_raise = None
    /\ \A i \in DOMAIN sends : sends[i].outcome = "ok" => i = Len(sends)
    /\ hook_pc = "done" => hook_return \in {"True", "False"}
    /\ (hook_pc = "done" /\ hook_return = "True")
          => sends # << >> /\ sends[Len(sends)].outcome = "ok"
    /\ (hook_pc = "done" /\ hook_return = "False")
          => /\ Len(sends) = hook_max_retries + 1
             /\ \A i \in DOMAIN sends : sends[i].outcome # "ok"
    /\ (sends # << >> /\ sends[Len(sends)].outcome = "ok")
          => hook_pc = "done" /\ hook_return = "True"

\* three attempts that failed in three ways, the first before any POST
C21_Witness ==
    LET sends == SendsOf(hook_trace) IN
    /\ hook_pc = "done" /\ hook_return = "False" /\ hook_max_retries = 2
    /\ Len(sends) = 3
    /\ sends[1].outcome = "unexpected"
    /\ sends[2].outcome = "timeout"
    /\ sends[3].outcome = "http_error"

\* C22: at most max_retries + 1 send_webhook calls are made; the first
\* entry of the trace is an attempt, the last entry of a finished call is an
\* attempt, every attempt a >= 1 is directly preceded by one sleep, and
\* that sleep lasts 2^a seconds: 2, 4, 8.
C22_ExponentialDelays ==
    LET sends == SendsOf(hook_trace)
        naps == SleepsOf(hook_trace) IN
    /\ Len(sends) <= hook_max_retries + 1
    /\ hook_trace # << >> => hook_trace[1].kind = "send"
    /\ (hook_pc = "done" /\ hook_trace # << >>)
          => hook_trace[Len(hook_trace)].kind = "send"
    /\ \A i \in DOMAIN hook_trace :
          /\ (hook_trace[i].kind = "send" /\ hook_trace[i].attempt >= 1)
                => /\ hook_trace[i - 1].kind = "sleep"
                   /\ hook_trace[i - 1].attempt = hook_trace[i].attempt
          /\ (hook_trace[i].kind = "sleep" /\ i > 1)
                => hook_trace[i - 1].kind = "send"
    /\ \A k \in DOMAIN naps :
          /\ naps[k].attempt = k
          /\ naps[k].delay = << 2, 4, 8 >>[k]
    /\ \A i \in DOMAIN sends : sends[i].attempt = i - 1

\* four attempts with the sleeps 2, 4 and 8 between them
C22_Witness ==
    /\ hook_pc = "done" /\ hook_max_retries = 3
    /\ Len(SendsOf(hook_trace)) = 4
    /\ Len(SleepsOf(hook_trace)) = 3
    /\ SleepsOf(hook_trace)[3].delay = 8

(***************************************************************************)
(* Claims about the Uploading and Separating steps and the cleanup.        *)
(***************************************************************************)
\* the upload_to_s3 calls an invocation made, in order
UploadsOf(w) == SelectSeq(uploads, LAMBDA u : u.job = w)
ThrottledUploads(w, stem_name) ==
    SelectSeq(uploads, LAMBDA u : /\ u.job = w /\ u.stem = stem_name
                                  /\ u.outcome = "SlowDown")

\* C23: a transient storage error raised while the pipeline uploads a stem
\* is retried; the job fails with that error only if the same upload met it
\* on max_attempts attempts.
C23_TransientUploadRetried ==
    \A w \in Workers :
        exc[w] = TransientUploadError
            => \E stem_name \in StemSet :
                  Len(ThrottledUploads(w, stem_name)) = S3_DEFAULT_MAX_RETRIES

\* C24: a failure to remove the workspace during cleanup does not change the
\* job's outcome: a job whose steps all succeeded still returns its
\* 'completed' result and a job that failed still raises its original error,
\* not the cleanup error.
C24_CleanupFailureOnlyLogged ==
    \A w \in Workers :
        (Done(w) /\ rm_failed[w])
            => /\ raised[w] = pending[w]
               /\ raised[w] # RmtreeError
               /\ (pending[w] = NoExc /\ "Notifying" \in returned[w])
                      => result[w].status = "completed"

\* the position of a stem type in the canonical order
CanonicalRank(stem_name) ==
    CASE stem_name = "drums" -> 1
      [] stem_name = "bass" -> 2
      [] stem_name = "other" -> 3
      [] stem_name = "vocals" -> 4
      [] OTHER -> 0
Canonical == {"drums", "bass", "other", "vocals"}
InCanonicalOrder(names) ==
    \A i, j \in DOMAIN names :
        i < j => /\ CanonicalRank(names[i]) > 0
                 /\ CanonicalRank(names[i]) < CanonicalRank(names[j])
RECURSIVE StemsOf(_)
StemsOf(calls_made) ==
    IF calls_made = << >> THEN << >>
    ELSE << Head(calls_made).stem >> \o StemsOf(Tail(calls_made))
RECURSIVE TypesOf(_)
TypesOf(infos) ==
    IF infos = << >> THEN << >>
    ELSE << Head(infos).type >> \o TypesOf(Tail(infos))
Stored(w) == SelectSeq(UploadsOf(w), LAMBDA u : u.outcome = "ok")
\* the workspace still holds what the inference call wrote
OutputKept(w) ==
    /\ "Separating" \in returned[w] /\ ~Done(w)
    /\ temp_dir[w] # 0 /\ fs[temp_dir[w]].exists

\* C25: stems are uploaded, and handed to the webhook payload, in the order
\* drums, bass, other, vocals restricted to the stems present; the payload's
\* list has the order of the uploads, whatever order the files were
\* produced in.
C25_CanonicalUploadOrder ==
    \A w \in Workers :
        /\ InCanonicalOrder(StemsOf(UploadsOf(w)))
        /\ TypesOf(stem_infos[w]) = StemsOf(Stored(w))
        /\ "Uploading" \in returned[w] =>
              /\ InCanonicalOrder(TypesOf(stem_infos[w]))
              /\ OutputKept(w) =>
                    { stem_infos[w][i].type : i \in DOMAIN stem_infos[w] }
                        = Canonical \cap fs[temp_dir[w]].files
        /\ \A i \in DOMAIN payloads[w] :
              payloads[w][i].status = "completed"
                  => TypesOf(payloads[w][i].stems) = StemsOf(Stored(w))

\* vocals, drums and other were produced; the uploads went drums, other,
\* vocals and the list handed to the payload has that order
C25_Witness ==
    \E w \in Workers :
        /\ "completed" \in { builds[w][i] : i \in DOMAIN builds[w] }
        /\ OutputKept(w)
        /\ Canonical \cap fs[temp_dir[w]].files = {"vocals", "drums", "other"}
        /\ StemsOf(UploadsOf(w)) = << "drums", "other", "vocals" >>
        /\ TypesOf(stem_infos[w]) = << "drums", "other", "vocals" >>

\* C27: the stems the Separating step reports are exactly the canonical
\* names whose output file exists after the inference call; an absent
\* canonical stem is never uploaded or listed and a file with another name
\* is never picked up.
C27_StemsAreExistingCanonicalFiles ==
    \A w \in Workers :
        /\ OutputKept(w) =>
              /\ { stems[w][i] : i \in DOMAIN stems[w] }
                     = Canonical \cap fs[temp_dir[w]].files
              /\ \A i \in DOMAIN uploads :
                    uploads[i].job = w
                        => uploads[i].stem \in fs[temp_dir[w]].files
              /\ \A i \in DOMAIN stem_infos[w] :
                    stem_infos[w][i].type \in fs[temp_dir[w]].files
        /\ \A i \in DOMAIN uploads : uploads[i].stem \in Canonical
        /\ \A i \in DOMAIN stem_infos[w] : stem_infos[w][i].type \in Canonical
        /\ \A i, j \in DOMAIN stems[w] : i # j => stems[w][i] # stems[w][j]

\* drums, vocals and accompaniment were written, bass and other were not:
\* drums and vocals are reported and uploaded, nothing else
C27_Witness ==
    \E w \in Workers :
        /\ OutputKept(w) /\ "Uploading" \in returned[w]
        /\ fs[temp_dir[w]].files
               = {"input", "drums", "vocals", "accompaniment"}
        /\ stems[w] = << "drums", "vocals" >>
        /\ StemsOf(UploadsOf(w)) = << "drums", "vocals" >>

\* C28: a failed duration probe never fails the job: the stem is still
\* uploaded and recorded with duration 0.0 and the remaining stems are still
\* processed.
C28_ProbeFailureNotFatal ==
    \A w \in Workers :
        /\ exc[w] # ProbeError
        /\ \A i \in DOMAIN Stored(w) :
              /\ stem_infos[w][i].type = Stored(w)[i].stem
              /\ ~Stored(w)[i].probed => stem_infos[w][i].duration = 0
        /\ pc[w] = "upload_stem"
              => StemsOf(UploadsOf(w)) \o todo[w] = stems[w]
        /\ "Uploading" \in returned[w]
              => StemsOf(UploadsOf(w)) = stems[w]

\* the probe of the first of three stems failed; all three were uploaded,
\* the first with duration 0 and the others with their durations
C28_Witness ==
    \E w \in Workers :
        /\ "Uploading" \in returned[w]
        /\ Len(stem_infos[w]) = 3
        /\ ~UploadsOf(w)[1].probed /\ UploadsOf(w)[2].probed
        /\ stem_infos[w][1].duration = 0
        /\ stem_infos[w][2].duration = 180
        /\ stem_infos[w][3].duration = 180

(***************************************************************************)
(* Claims about two invocations running side by side (SpecPool).           *)
(***************************************************************************)
\* the invocation holds a workspace it has not yet cleaned up
Holding(w) == temp_dir[w] # 0 /\ ~Done(w)
\* the invocation took a step
Moved(w) ==
    \/ pc'[w] # pc[w]
    \/ todo'[w] # todo[w]

\* every change of a directory is made by the invocation that owns it
OwnWorkspaceOnly ==
    \A d \in Dirs :
        fs'[d] # fs[d] => \E w \in Workers : Moved(w) /\ temp_dir'[w] = d

\* the step of one invocation leaves the workspace the other holds as it is
OthersUntouched ==
    \A w, v \in Workers :
        (w # v /\ Moved(w) /\ Holding(v))
            => fs'[temp_dir[v]] = fs[temp_dir[v]]

\* C26: of two invocations running concurrently each has its own workspace
\* directory, created before its Downloading step; no invocation writes the
\* other's workspace and the cleanup of one never removes the other's files.
C26_WorkspacesIsolated ==
    /\ [](\A w, v \in Workers :
             (w # v /\ Holding(w) /\ Holding(v))
                 => /\ temp_dir[w] # temp_dir[v]
                    /\ fs[temp_dir[w]].exists /\ fs[temp_dir[v]].exists)
    /\ [](\A w \in Workers :
             (\E i \in DOMAIN log[w] : log[w][i] = "Downloading")
                 => /\ temp_dir[w] # 0
                    /\ "Workspace" \in returned[w])
    /\ [][OwnWorkspaceOnly /\ OthersUntouched]_vars

\* one invocation has cleaned up while the other, between separation and
\* its own cleanup, still has every file it wrote
C26_Witness ==
    \E w, v \in Workers :
        /\ w # v
        /\ Done(w) /\ temp_dir[w] # 0 /\ "Downloading" \in returned[w]
        /\ ~rm_failed[w] /\ ~fs[temp_dir[w]].exists
        /\ Holding(v) /\ pc[v] = "upload_stem"
        /\ fs[temp_dir[v]].files = {"input", "vocals", "drums"}

\* C29: every stem object is stored under "<job id>/<stem type>.wav": two
\* different stems of one job never share a key, and stems of jobs with
\* different ids never overwrite each other, however the uploads of the
\* workers interleave.
C29_KeysNamespacedByJob ==
    /\ \A i \in DOMAIN uploads :
          uploads[i].key = << version_id(uploads[i].job), uploads[i].stem,
                              "wav" >>
    /\ \A i, j \in DOMAIN uploads :
          uploads[i].key = uploads[j].key
              => /\ uploads[i].job = uploads[j].job
                 /\ uploads[i].stem = uploads[j].stem
    /\ storage = { uploads[i].key :
                     i \in { k \in DOMAIN uploads : uploads[k].outcome = "ok" } }
    /\ Cardinality(storage)
           = Cardinality({ << uploads[i].job, uploads[i].stem >> :
                 i \in { k \in DOMAIN uploads : uploads[k].outcome = "ok" } })

\* both jobs stored drums and vocals, their uploads interleaved; four
\* objects are in the bucket
C29_Witness ==
    /\ Len(uploads) = 4
    /\ StemsOf(uploads) = << "drums", "drums", "vocals", "vocals" >>
    /\ uploads[1].job # uploads[2].job
    /\ uploads[3].job # uploads[4].job
    /\ \A i \in DOMAIN uploads : uploads[i].outcome = "ok"
    /\ Cardinality(storage) = 4

(***************************************************************************)
(* Claims about S3Service.file_exists (SpecS3).                            *)
(***************************************************************************)
NotFound == S3Exc("ClientError", "404")
ExistsCall == s3_op = "file_exists" /\ s3_bucket
LastClientCall == client_calls[Len(client_calls)]

\* C31: file_exists returns true when the object exists and returns false,
\* after exactly one storage call and without any retry, when the storage
\* service answers with error code '404'; it never reports false for an
\* error other than not-found.
C31_FileExistsNotFoundIsFalse ==
    ExistsCall =>
       /\ (client_calls # << >> /\ LastClientCall = S3Ok)
             => /\ s3_pc = "done"
                /\ s3_return = S3Value("True") /\ s3_raise = S3None
       /\ client_calls = << NotFound >>
             => /\ s3_pc = "done"
                /\ s3_return = S3Value("False") /\ s3_raise = S3None
                /\ sleeps = << >> /\ Len(attempts) = 1
                /\ CountOf("warning", s3_log) = 0
       /\ (client_calls # << >> /\ LastClientCall = NotFound)
             => s3_pc = "done" /\ s3_return = S3Value("False")
       /\ (s3_pc = "done" /\ s3_return = S3Value("False"))
             => LastClientCall = NotFound
       /\ (s3_pc = "done" /\ LastClientCall \notin {S3Ok, NotFound})
             => s3_return = S3None /\ s3_raise = LastClientCall

\* the first head_object call was answered with '404': false after one call
C31_Witness ==
    /\ ExistsCall /\ s3_pc = "done"
    /\ client_calls = << NotFound >>
    /\ s3_return = S3Value("False")

(***************************************************************************)
(* Claims about the failure path of process_audio_split (Spec).            *)
(***************************************************************************)
Failed(w) == exc[w] # NoExc
BuildsOf(w) == { builds[w][i] : i \in DOMAIN builds[w] }

\* C33: uploads are not rolled back: when the pipeline fails after k stems
\* were uploaded, those k objects remain in storage while the 'failed'
\* notification is given stems = []; the failure path deletes nothing.
C33_UploadsNotRolledBack ==
    /\ \A i \in DOMAIN uploads :
          uploads[i].outcome = "ok" => uploads[i].key \in storage
    /\ \A w \in Workers :
          /\ \A i \in DOMAIN stem_infos[w] : stem_infos[w][i].url \in storage
          /\ (Failed(w) /\ "failed" \in BuildsOf(w))
                => FailedKwargs(version_id(w), str(exc[w])).stems = << >>
          /\ \A i \in DOMAIN payloads[w] :
                payloads[w][i].status = "failed"
                    => payloads[w][i].stems = << >>

\* the upload of the third stem failed; the job has ended and the first two
\* objects are still in the bucket
C33_Witness ==
    \E w \in Workers :
        /\ Done(w) /\ exc[w] = UploadError /\ "failed" \in BuildsOf(w)
        /\ Len(stem_infos[w]) = 2 /\ Len(stems[w]) > 2
        /\ \A i \in 1 .. 2 : stem_infos[w][i].url \in storage
        /\ Cardinality(storage) = 2

\* C34: when the separation call raises nothing but no canonical stem file
\* exists afterwards, the pipeline does not fail: it goes through Uploading
\* with nothing to upload, notifies with status 'completed' and stems = [],
\* and returns a stem count of 0.
C34_NoStemsStillCompletes ==
    \A w \in Workers :
        (Done(w) /\ "Separating" \in returned[w] /\ stems[w] = << >>
                 /\ ~rm_failed[w]
                 /\ exc[w] \notin WebhookErrors \cup {BrokerError})
            => /\ "Uploading" \in returned[w]
               /\ UploadsOf(w) = << >>
               /\ raised[w] = NoExc
               /\ Len(PostsOf(w)) = 1
               /\ PostsOf(w)[1].status = "completed"
               /\ PostsOf(w)[1].stems = << >>
               /\ result[w] = [status |-> "completed", stems_count |-> 0]

\* the workspace the invocation created is gone
Removed(w) == temp_dir[w] # 0 /\ ~fs[temp_dir[w]].exists
RecordingAttempted(w) == FailureRecorded(w) \/ pending[w] = BrokerError

\* the 'failed' notification is attempted while the workspace is untouched
NotifiedBeforeCleanup ==
    \A w \in Workers :
        (builds'[w] # builds[w] /\ temp_dir[w] # 0)
            => fs[temp_dir[w]].exists /\ fs' = fs

\* C35: on a step failure the 'failed' webhook attempt finishes first, then
\* the FAILURE state is recorded with the broker, then the workspace is
\* removed, then the error reaches the caller; the workspace exists while
\* the failure webhook is sent and is removed even if recording the FAILURE
\* state raises (on every path on which the removal call does not fail).
C35_FailureEffectsInOrder ==
    /\ [](\A w \in Workers :
            Failed(w) =>
               /\ RecordingAttempted(w) => "failed" \in BuildsOf(w)
               /\ Removed(w) => (Done(w) /\ RecordingAttempted(w))
               /\ raised[w] # NoExc
                     => /\ Done(w)
                        /\ temp_dir[w] # 0 => (Removed(w) \/ rm_failed[w])
               /\ (Done(w) /\ temp_dir[w] # 0 /\ ~rm_failed[w])
                     => (Removed(w) /\ raised[w] = pending[w]
                                    /\ raised[w] # NoExc))
    /\ [][NotifiedBeforeCleanup]_vars

\* the separation failed, the 'failed' notification was attempted, recording
\* FAILURE raised, and the workspace is removed all the same
C35_Witness ==
    \E w \in Workers :
        /\ Done(w) /\ exc[w] = SeparationError
        /\ "failed" \in BuildsOf(w)
        /\ ~FailureRecorded(w) /\ raised[w] = BrokerError
        /\ Removed(w)

(***************************************************************************)
(* Claims about the requests of send_webhook_with_retry (SpecHook).        *)
(***************************************************************************)
\* C36: across the attempts of one send_webhook_with_retry call the POSTed
\* body is the same serialised payload, while X-Signature and X-Timestamp
\* are computed anew on every attempt; on every attempt the headers sent
\* verify against the body sent.
C36_SameBodyFreshHeaders ==
    /\ \A i \in DOMAIN hook_posts :
          LET post == hook_posts[i] IN
          /\ post.body = hook_posts[1].body
          /\ post.headers["X-Timestamp"] = IntToStr(post.at)
          /\ verify_hmac_signature(demucssvc_token, post.body,
                                   post.headers["X-Signature"],
                                   post.headers["X-Timestamp"], now)
                = Value(TRUE)
    /\ \A i, j \in DOMAIN hook_posts :
          i < j => /\ hook_posts[i].at < hook_posts[j].at
                   /\ hook_posts[i].headers["X-Timestamp"]
                         # hook_posts[j].headers["X-Timestamp"]
                   /\ hook_posts[i].headers["X-Signature"]
                         # hook_posts[j].headers["X-Signature"]

\* three attempts POSTed the 'failed' payload: one body, three timestamps
C36_Witness ==
    /\ hook_payload = FailedPayload
    /\ Len(hook_posts) = 3
    /\ hook_posts[3].body = hook_posts[1].body
    /\ hook_posts[1].headers["X-Timestamp"] = << "1" >>
    /\ hook_posts[2].headers["X-Timestamp"] = << "3" >>
    /\ hook_posts[3].headers["X-Timestamp"] = << "8" >>

(***************************************************************************)
(* Claims about the allowlist's path test (SpecDoor).                      *)
(***************************************************************************)
\* a URL without its query and fragment
WithoutTail(url) == TakeWhileNotIn(url, TailPieces)
AllowedHostUrl == << "https", ":", "//", "api.track-tree.com" >>
OnAllowedHost(url) ==
    Len(url) >= Len(AllowedHostUrl)
        /\ SubSeq(url, 1, Len(AllowedHostUrl)) = AllowedHostUrl
        /\ (Len(url) > Len(AllowedHostUrl)
               => url[Len(AllowedHostUrl) + 1] \in PathPieces \cup TailPieces)

\* C37: the allowlist's path check is a plain string-prefix test: with the
\* entry https://api.track-tree.com/webhooks/demucs a candidate on that
\* scheme and host is accepted for /webhooks/demucs/x and equally for
\* /webhooks/demucs-other; an entry with an empty path accepts every path
\* on its host; the candidate's query and fragment never change the result.
C37_PathTestIsStringPrefix ==
    /\ \A i \in CallsOf("is_webhook_url_allowed") :
          LET url == WithoutTail(calls[i].webhook_url) IN
          /\ (api_webhook_url_allowlist = default_allowlist
                /\ url \in { default_allowlist[1] \o << "/x" >>,
                             default_allowlist[1] \o << "-other" >> })
                => calls[i].result = TRUE
          /\ (api_webhook_url_allowlist = << AllowedHostUrl >>
                /\ OnAllowedHost(url))
                => calls[i].result = TRUE
    /\ \A i, j \in CallsOf("is_webhook_url_allowed") :
          WithoutTail(calls[i].webhook_url) = WithoutTail(calls[j].webhook_url)
              => calls[i].result = calls[j].result

\* with the default allowlist, /webhooks/demucs-other#frag and
\* /webhooks/demucs/x were both accepted
C37_Witness ==
    /\ api_webhook_url_allowlist = default_allowlist
    /\ \E i, j \in CallsOf("is_webhook_url_allowed") :
          /\ calls[i].webhook_url
                = default_allowlist[1] \o << "-other", "#frag" >>
          /\ calls[i].result = TRUE
          /\ calls[j].webhook_url = default_allowlist[1] \o << "/x" >>
          /\ calls[j].result = TRUE

(***************************************************************************)
(* Claims about mock_process_audio_split (SpecMock).                       *)
(***************************************************************************)
\* C38: mock_process_audio_split sends at most two webhook POSTs per call:
\* the 'completed' one, and a 'failed' one only if the 'completed' POST
\* raised an exception, not if it was answered with another status than
\* 200; it returns status 'completed' in every case, also when the 'failed'
\* webhook was the last one sent.
C38_MockAlwaysCompleted ==
    /\ Len(mock_posts) <= 2
    /\ mock_raise = None
    /\ mock_posts # << >> =>
          /\ mock_posts[1].payload.status = "completed"
          /\ Len(mock_posts[1].payload.stems) = Len(stem_types)
    /\ Len(mock_posts) = 2 =>
          /\ mock_posts[1].outcome \in {"ReadTimeout", "ConnectError"}
          /\ mock_posts[2].payload.status = "failed"
          /\ mock_posts[2].payload.stems = << >>
    /\ mock_pc = "done" =>
          /\ mock_return.status = "completed"
          /\ Len(mock_return.stems) = Len(stem_types)
          /\ mock_posts # << >>
          /\ (mock_posts[1].outcome \in {"200", "500"}) => Len(mock_posts) = 1
          /\ (mock_posts[1].outcome \in {"ReadTimeout", "ConnectError"})
                => Len(mock_posts) = 2

\* the 'completed' POST timed out, the 'failed' POST was answered 200, and
\* the call returned 'completed'
C38_Witness ==
    /\ mock_pc = "done" /\ Len(mock_posts) = 2
    /\ mock_posts[1].outcome = "ReadTimeout"
    /\ mock_posts[2].payload.status = "failed"
    /\ mock_posts[2].outcome = "200"
    /\ mock_return.status = "completed"

====
